---- MODULE Spec2Model ----
(***************************************************************************)
(* A model of the exchange-rate resolution core of mycurrency:             *)
(*   - services/provider_manager.py    (ProviderManager, failover)         *)
(*   - services/exchange_rate_service.py (ExchangeRateService)             *)
(*   - adapters/mock.py, adapters/currencybeacon.py (the two adapters)     *)
(*   - apps/currencies/models.py, apps/providers/models.py (the tables)    *)
(*                                                                         *)
(* Strings the code compares, orders or upper-cases (currency codes,       *)
(* provider names) are sequences of ASCII codes; other strings (adapter    *)
(* paths, exception class names, messages) are TLA+ strings.  Decimal      *)
(* rates are integers in units of 10^-6 (six fractional digits).  Dates    *)
(* are day ordinals.                                                       *)
(***************************************************************************)
EXTENDS Integers, Sequences, FiniteSets, TLC

VARIABLES
    today,          \* date.today(): the current day of the process
    providers,      \* the Provider table: name -> row
    adaptersCache,  \* ProviderManager._adapters_cache: set of cache keys
    fo,             \* one execute_with_failover call (SpecFailover)
    cbCache,        \* django.core.cache: the process-local cache, key -> quote
    ad,             \* the last adapter call and its outcome (SpecAdapter)
    store,          \* the CurrencyExchangeRate table: a set of rows
    nextId,         \* the next primary key of the CurrencyExchangeRate table
    th,             \* the service calls, one per thread
    pm,             \* the adapter objects of the ProviderManager (SpecInstances)
    task,           \* one run of load_historical_rates_task (SpecTask)
    rng,            \* the process-wide generator of the random module
    mk              \* the MockAdapter calls, one per thread (SpecMockThreads)

vars == <<today, providers, adaptersCache, fo, cbCache, ad, store, nextId, th, pm, task, rng, mk>>

\* what the ProviderManager alone leaves untouched
notManager == <<today, cbCache, ad, store, nextId, th, pm, task, rng, mk>>

\* what an adapter alone leaves untouched
notAdapter == <<today, providers, adaptersCache, fo, store, nextId, th, pm, task, rng, mk>>

----------------------------------------------------------------------------
(* Strings as sequences of ASCII codes *)

\* str.upper() on one ASCII character: 'a'..'z' (97..122) -> 'A'..'Z'
UpperChar(c) == IF c >= 97 /\ c <= 122 THEN c - 32 ELSE c

\* str.upper()
Upper(s) == [i \in 1..Len(s) |-> UpperChar(s[i])]

\* byte-wise lexicographic order of two strings (ORDER BY on a CharField)
RECURSIVE StrLess(_, _)
StrLess(a, b) ==
    IF b = <<>> THEN FALSE
    ELSE IF a = <<>> THEN TRUE
    ELSE IF Head(a) # Head(b) THEN Head(a) < Head(b)
    ELSE StrLess(Tail(a), Tail(b))

----------------------------------------------------------------------------
(* Bounds of the model *)

\* priorities range over 1..MaxPriority
MaxPriority == 2

\* dates are the days 1..MaxDate; the process starts on day StartDay
MaxDate == 3
StartDay == 2

\* date.today()
Today == today
Dates == 1..MaxDate

----------------------------------------------------------------------------
(* The Provider table (apps/providers/models.py) *)

\* provider names "P1", "P2", "P3"
P1 == <<80, 49>>
P2 == <<80, 50>>
P3 == <<80, 51>>
ProviderNames == {P1, P2, P3}

MockPath == "adapters.mock.MockAdapter"
CBPath == "adapters.currencybeacon.CurrencyBeaconAdapter"
\* the module exists, the class does not: getattr raises AttributeError
BadPath == "adapters.mock.NoSuchAdapter"
AdapterPaths == {MockPath, CBPath, BadPath}

\* a config: None, or a dict as the sequence of its (key, value) items in
\* insertion order, keys and values as the text repr() gives for them
NoneConfig == [none |-> TRUE, items |-> <<>>]
Config(items) == [none |-> FALSE, items |-> items]

\* Provider.config is left at its default, dict()
EmptyConfig == Config(<<>>)

\* ProviderManager() before any call: no adapter object held or made
\*   cache     _adapters_cache: cache key -> adapter object (its number)
\*   made      the number of adapter objects constructed so far
\*   returned  what get_adapter returned since the last clear_cache
\*   old       what it returned before the last clear_cache
PmNew == [cache |-> <<>>, made |-> 0, returned |-> {}, old |-> {}]

ProviderRow == [priority : 1..MaxPriority, is_active : BOOLEAN,
                adapter_path : AdapterPaths, config : {EmptyConfig}]

\* the rows of a table, each with its (unique) name
Rows(table) ==
    {[name |-> n, priority |-> table[n].priority,
      is_active |-> table[n].is_active,
      adapter_path |-> table[n].adapter_path,
      config |-> table[n].config] : n \in DOMAIN table}

----------------------------------------------------------------------------
(* Currency codes, quotes, exceptions (adapters/base.py) *)

\* "EUR", "USD", "GBP", "CHF", "JPY" and some other spellings of them
EUR == <<69, 85, 82>>
USD == <<85, 83, 68>>
GBP == <<71, 66, 80>>
CHF == <<67, 72, 70>>
JPY == <<74, 80, 89>>
eur == <<101, 117, 114>>
usd == <<117, 115, 100>>
eUr == <<101, 85, 114>>

\* Decimal('1.000000')
One == 1000000

\* ExchangeRateResult
Quote(source, target, date, rate, provider_name) ==
    [source_currency |-> source, exchanged_currency |-> target,
     valuation_date |-> date, rate_value |-> rate,
     provider_name |-> provider_name]

\* no ExchangeRateResult
NoQuote == Quote(<<>>, <<>>, 0, 0, "None")

\* an exception: its class and its message (a sequence of strings)
Exc(kind, msg) == [kind |-> kind, msg |-> msg]

\* Python's None, where an exception may stand
NoExc == Exc("None", <<>>)

\* the empty cache
NoCache == <<>>

\* what one adapter call did: the exception it raised or the value it
\* returned, the cache it leaves, the upstream requests it sent, the cache
\* keys it read, the cache keys it wrote, the number of draws from the
\* `random` module and the number of time.sleep calls
Outcome(exc, result, cache, requests, cache_gets, cache_sets, draws) ==
    [exc |-> exc, result |-> result, cache |-> cache, requests |-> requests,
     cache_gets |-> cache_gets, cache_sets |-> cache_sets, draws |-> draws,
     sleeps |-> 0]

----------------------------------------------------------------------------
(* MockAdapter (adapters/mock.py) *)

\* DEFAULT_BASE_RATES
DefaultBaseRates ==
    (<<EUR, USD>> :> 1080000) @@ (<<EUR, GBP>> :> 860000) @@
    (<<EUR, CHF>> :> 940000) @@
    (<<USD, EUR>> :> 930000) @@ (<<USD, GBP>> :> 790000) @@
    (<<USD, CHF>> :> 870000) @@
    (<<GBP, EUR>> :> 1160000) @@ (<<GBP, USD>> :> 1270000) @@
    (<<GBP, CHF>> :> 1100000) @@
    (<<CHF, EUR>> :> 1060000) @@ (<<CHF, USD>> :> 1150000) @@
    (<<CHF, GBP>> :> 910000)

\* self.volatility: 0.05, in units of 10^-3
Volatility == 50

\* n / d rounded to the nearest integer, ties to even (round(Decimal, 6))
RoundHalfEven(n, d) ==
    LET q == n \div d
        r == n % d
    IN  IF 2 * r < d THEN q
        ELSE IF 2 * r > d THEN q + 1
        ELSE IF q % 2 = 0 THEN q ELSE q + 1

\* random.seed(n); random.random(): a fixed function of n into [0, 1), in
\* units of 10^-3 (the generator's own function is not reproduced here)
SeededRandom(n) == ((n % 9973) * 7919 + 12345) % 1000

\* year * 10000 + month * 100 + day; day 1 of the model is 2024-01-14
DateFactor(valuation_date) == 2024 * 10000 + 1 * 100 + (13 + valuation_date)

\* the product of two table rates (each has two fractional digits)
PivotProduct(a, b) == ((a \div 10000) * (b \div 10000)) * 100

\* _get_base_rate; `drawn` is what random.uniform(0.5, 2.0) returns when
\* the pair has no direct and no EUR-pivot entry. Returns <<rate, draws>>
GetBaseRate(source_currency, exchanged_currency, drawn) ==
    LET key == <<Upper(source_currency), Upper(exchanged_currency)>>
        viaSource == <<Upper(source_currency), EUR>>
        viaTarget == <<EUR, Upper(exchanged_currency)>>
    IN  IF key \in DOMAIN DefaultBaseRates THEN <<DefaultBaseRates[key], 0>>
        ELSE IF /\ Upper(source_currency) # EUR
                /\ viaSource \in DOMAIN DefaultBaseRates
                /\ viaTarget \in DOMAIN DefaultBaseRates
        THEN <<PivotProduct(DefaultBaseRates[viaSource],
                            DefaultBaseRates[viaTarget]), 0>>
        ELSE <<drawn, 1>>

\* mutant: the variation is drawn from (-1, 1), twenty times the volatility
VariedBeyondVolatility(base_rate, u) ==
    LET variation == (2 * 1000 * u) \div 1000 - 1000
    IN  RoundHalfEven(base_rate * (1000 + variation), 1000)

\* round(base_rate * (1 + variation), 6) with variation =
\* uniform(-volatility, volatility), where the generator's random() is u
\* (in units of 10^-3)
Varied(base_rate, u) ==
    LET variation == (2 * Volatility * u) \div 1000 - Volatility
    IN  RoundHalfEven(base_rate * (1000 + variation), 1000)

\* _apply_variation: the generator is seeded by the date
ApplyVariation(base_rate, valuation_date) ==
    Varied(base_rate, SeededRandom(DateFactor(valuation_date)))

\* mutant: the same-currency test compares the codes as they were given
MockGetExchangeRateCaseBug(source_currency, exchanged_currency, valuation_date, drawn) ==
    LET base == GetBaseRate(source_currency, exchanged_currency, drawn)
        same == source_currency = exchanged_currency
    IN  Outcome(NoExc,
                Quote(Upper(source_currency), Upper(exchanged_currency),
                      valuation_date,
                      IF same THEN One ELSE ApplyVariation(base[1], valuation_date),
                      "Mock Provider"),
                NoCache, <<>>, <<>>, <<>>, IF same THEN 0 ELSE base[2] + 1)

\* MockAdapter.get_exchange_rate
MockGetExchangeRate(source_currency, exchanged_currency, valuation_date, drawn) ==
    LET base == GetBaseRate(source_currency, exchanged_currency, drawn)
        same == Upper(source_currency) = Upper(exchanged_currency)
    IN  Outcome(NoExc,
                Quote(Upper(source_currency), Upper(exchanged_currency),
                      valuation_date,
                      IF same THEN One ELSE ApplyVariation(base[1], valuation_date),
                      "Mock Provider"),
                NoCache, <<>>, <<>>, <<>>, IF same THEN 0 ELSE base[2] + 1)

\* the optional target_currencies argument: None, or a list of codes
NoTargets == [none |-> TRUE, list |-> <<>>]
Targets(list) == [none |-> FALSE, list |-> list]

\* the for loop of MockAdapter.get_exchange_rates_for_date over
\* target_currencies[i..]; drawn as in MockGetExchangeRate
RECURSIVE MockBatchLoop(_, _, _, _, _, _)
MockBatchLoop(source_currency, valuation_date, targets, i, drawn, acc) ==
    IF i > Len(targets) THEN acc
    ELSE IF Upper(targets[i]) = Upper(source_currency)
    THEN MockBatchLoop(source_currency, valuation_date, targets, i + 1, drawn, acc)
    ELSE LET out == MockGetExchangeRate(source_currency, targets[i],
                                        valuation_date, drawn)
         IN  MockBatchLoop(source_currency, valuation_date, targets, i + 1, drawn,
                 [acc EXCEPT !.result = Append(@, out.result),
                             !.draws = @ + out.draws])

\* MockAdapter.get_exchange_rates_for_date
MockGetExchangeRatesForDate(source_currency, valuation_date, target_currencies, drawn) ==
    MockBatchLoop(source_currency, valuation_date,
                  IF target_currencies.none THEN <<EUR, USD, GBP, CHF>>
                  ELSE target_currencies.list,
                  1, drawn, Outcome(NoExc, <<>>, NoCache, <<>>, <<>>, <<>>, 0))

----------------------------------------------------------------------------
(* CurrencyBeaconAdapter (adapters/currencybeacon.py) *)

\* _get_cache_key: f"currencybeacon:{source}:{target}:{date.isoformat()}"
GetCacheKey(source, target, valuation_date) == <<source, target, valuation_date>>

\* cache.set(key, value, ttl)
CacheSet(cache, key, value) ==
    [k \in DOMAIN cache \cup {key} |-> IF k = key THEN value ELSE cache[k]]

\* a rates mapping of a response body: currency code -> rate
RatesMaps(codes, rates) ==
    {<<>>} \cup UNION {[{c} -> rates] : c \in codes}

\* what the upstream answers to one request: a failure (timeout, transport
\* error, non-2xx status, an `error` field in the body), or a JSON body with
\* a top-level `rates` and a nested `response.rates` (either may be empty)
Answers(codes, rates) ==
    {[kind |-> "fail", rates |-> <<>>, nested |-> <<>>]}
    \cup [kind : {"json"}, rates : RatesMaps(codes, rates),
          nested : RatesMaps(codes, rates)]

\* the request get_exchange_rate sends
Request(endpoint, base, date) ==
    [endpoint |-> endpoint, base |-> base, date |-> date, end_date |-> 0,
     symbols |-> <<>>]

\* mutant: /latest only for today itself, no clamping of a later date
RequestForExactDate(source, valuation_date) ==
    IF valuation_date = Today THEN Request("/latest", source, 0)
    ELSE Request("/historical", source, valuation_date)

\* the request get_exchange_rate sends for a date: a date after today is
\* replaced by today, today goes to /latest, an earlier date to /historical
RequestFor(source, valuation_date) ==
    IF (IF valuation_date > Today THEN Today ELSE valuation_date) >= Today
    THEN Request("/latest", source, 0)
    ELSE Request("/historical", source, valuation_date)

\* one response of the HTTP layer to a request: how it ends ("timeout", a
\* "transport" failure, a non-2xx "status", a "malformed" body, a 2xx body
\* with an "error_field", "ok", or "ok_text": a body whose rates are values
\* Decimal() rejects) and, for a body, the two rates mappings
Response(how, status, rates, nested) ==
    [how |-> how, status |-> status, rates |-> rates, nested |-> nested]

\* _make_request: what the adapter's methods get for a response. kind
\* "fail": ProviderUnavailableError (the three except clauses and the
\* `error` field); kind "raw": the ValueError (json.JSONDecodeError) of
\* response.json(), which none of the except clauses names; kind "json":
\* the body; kind "garbled": the body, its rates being values that make
\* Decimal(str(...)) raise InvalidOperation
MakeRequest(response) ==
    IF response.how \in {"timeout", "transport", "status", "error_field"}
    THEN [kind |-> "fail", rates |-> <<>>, nested |-> <<>>]
    ELSE IF response.how = "malformed"
    THEN [kind |-> "raw", rates |-> <<>>, nested |-> <<>>]
    ELSE [kind |-> IF response.how = "ok" THEN "json" ELSE "garbled",
          rates |-> response.rates, nested |-> response.nested]

\* mutant: get_exchange_rate has no `except Exception` clause
RaisedByLookupUnhandled(answer) ==
    IF answer.kind = "fail"
    THEN Exc("ProviderUnavailableError", <<"CurrencyBeacon request failed">>)
    ELSE Exc("JSONDecodeError", <<"Expecting value">>)

\* the except clauses of get_exchange_rate for an exception other than
\* RateNotFoundError: ProviderUnavailableError is re-raised, any other
\* exception is raised again as ProviderUnavailableError
RaisedByLookup(answer) ==
    IF answer.kind = "fail"
    THEN Exc("ProviderUnavailableError", <<"CurrencyBeacon request failed">>)
    ELSE Exc("ProviderUnavailableError", <<"Unexpected error">>)

\* mutant: the nested mapping is never looked at
CBGetExchangeRateTopLevelOnly(source_currency, exchanged_currency, valuation_date, cache, answer) ==
    LET source == Upper(source_currency)
        target == Upper(exchanged_currency)
        cache_key == GetCacheKey(source, target, valuation_date)
        date == IF valuation_date > Today THEN Today ELSE valuation_date
        latest == date >= Today
        request == RequestFor(source, valuation_date)
        actual_date == IF latest THEN Today ELSE date
        rates == answer.rates
    IN  IF source = target
        THEN Outcome(NoExc,
                     Quote(source, target, valuation_date, One, "CurrencyBeacon"),
                     cache, <<>>, <<>>, <<>>, 0)
        ELSE IF cache_key \in DOMAIN cache
        THEN Outcome(NoExc, cache[cache_key], cache, <<>>, <<cache_key>>, <<>>, 0)
        ELSE IF answer.kind \in {"fail", "raw"}
        THEN Outcome(RaisedByLookup(answer),
                     NoQuote, cache, <<request>>, <<cache_key>>, <<>>, 0)
        ELSE IF target \notin DOMAIN rates
        THEN Outcome(Exc("RateNotFoundError", <<"Rate not found">>),
                     NoQuote, cache, <<request>>, <<cache_key>>, <<>>, 0)
        ELSE IF answer.kind = "garbled"
        THEN Outcome(RaisedByLookup(answer),
                     NoQuote, cache, <<request>>, <<cache_key>>, <<>>, 0)
        ELSE LET result == Quote(source, target, actual_date, rates[target],
                                 "CurrencyBeacon")
             IN  Outcome(NoExc, result, CacheSet(cache, cache_key, result),
                         <<request>>, <<cache_key>>, <<cache_key>>, 0)

\* CurrencyBeaconAdapter.get_exchange_rate; `answer` is what the upstream
\* answers if it is asked
CBGetExchangeRate(source_currency, exchanged_currency, valuation_date, cache, answer) ==
    LET source == Upper(source_currency)
        target == Upper(exchanged_currency)
        cache_key == GetCacheKey(source, target, valuation_date)
        date == IF valuation_date > Today THEN Today ELSE valuation_date
        latest == date >= Today
        request == RequestFor(source, valuation_date)
        actual_date == IF latest THEN Today ELSE date
        rates == IF answer.rates # <<>> THEN answer.rates ELSE answer.nested
    IN  IF source = target
        THEN Outcome(NoExc,
                     Quote(source, target, valuation_date, One, "CurrencyBeacon"),
                     cache, <<>>, <<>>, <<>>, 0)
        ELSE IF cache_key \in DOMAIN cache
        THEN Outcome(NoExc, cache[cache_key], cache, <<>>, <<cache_key>>, <<>>, 0)
        ELSE IF answer.kind \in {"fail", "raw"}
        THEN Outcome(RaisedByLookup(answer),
                     NoQuote, cache, <<request>>, <<cache_key>>, <<>>, 0)
        ELSE IF target \notin DOMAIN rates
        THEN Outcome(Exc("RateNotFoundError", <<"Rate not found">>),
                     NoQuote, cache, <<request>>, <<cache_key>>, <<>>, 0)
        ELSE IF answer.kind = "garbled"
        THEN Outcome(RaisedByLookup(answer),
                     NoQuote, cache, <<request>>, <<cache_key>>, <<>>, 0)
        ELSE LET result == Quote(source, target, actual_date, rates[target],
                                 "CurrencyBeacon")
             IN  Outcome(NoExc, result, CacheSet(cache, cache_key, result),
                         <<request>>, <<cache_key>>, <<cache_key>>, 0)

\* CurrencyBeaconAdapter.get_exchange_rates_for_date. The request is sent
\* as in get_exchange_rate; when it fails, ProviderUnavailableError reaches
\* `except Exception`; when it returns, line 226 reads the local `rates`,
\* which no line has assigned yet: UnboundLocalError, caught by the same
\* handler. Either way the call raises ProviderUnavailableError, and the
\* lines that filter, build and cache the quotes are never reached.
CBGetExchangeRatesForDate(source_currency, valuation_date, target_currencies, cache, answer) ==
    Outcome(Exc("ProviderUnavailableError", <<"Failed to get rates">>),
            <<>>, cache, <<RequestFor(Upper(source_currency), valuation_date)>>,
            <<>>, <<>>, 0)

\* CurrencyBeaconAdapter.get_latest_rate: every exception of the try block,
\* the RateNotFoundError raised inside it included, leaves as
\* ProviderUnavailableError
CBGetLatestRate(source_currency, exchanged_currency, cache, answer) ==
    LET source == Upper(source_currency)
        target == Upper(exchanged_currency)
        cache_key == GetCacheKey(source, target, Today)
        request == Request("/latest", source, 0)
        rates == IF answer.rates # <<>> THEN answer.rates ELSE answer.nested
    IN  IF source = target
        THEN Outcome(NoExc, Quote(source, target, Today, One, "CurrencyBeacon"),
                     cache, <<>>, <<>>, <<>>, 0)
        ELSE IF cache_key \in DOMAIN cache
        THEN Outcome(NoExc, cache[cache_key], cache, <<>>, <<cache_key>>, <<>>, 0)
        ELSE IF answer.kind # "json" \/ target \notin DOMAIN rates
        THEN Outcome(Exc("ProviderUnavailableError", <<"Failed to get latest rate">>),
                     NoQuote, cache, <<request>>, <<cache_key>>, <<>>, 0)
        ELSE LET result == Quote(source, target, Today, rates[target],
                                 "CurrencyBeacon")
             IN  Outcome(NoExc, result, CacheSet(cache, cache_key, result),
                         <<request>>, <<cache_key>>, <<cache_key>>, 0)

\* BaseExchangeRateAdapter.get_latest_rate, which MockAdapter inherits
MockGetLatestRate(source_currency, exchanged_currency, drawn) ==
    MockGetExchangeRate(source_currency, exchanged_currency, Today, drawn)

\* mutant: the loop gives up one failure later
MaxErrorsOneMore == 5 + 1

\* max_errors of _fallback_historical_rates
MaxErrors == 5

\* sorted(results, key=lambda r: r.valuation_date): stable, ascending
RECURSIVE SortByDate(_)
SortByDate(results) ==
    IF results = <<>> THEN <<>>
    ELSE LET n == Len(results)
             front == SortByDate(SubSeq(results, 1, n - 1))
             last == results[n]
             before == SelectSeq(front, LAMBDA r : r.valuation_date <= last.valuation_date)
             after == SelectSeq(front, LAMBDA r : r.valuation_date > last.valuation_date)
         IN  before \o <<last>> \o after

\* the running state of a historical lookup: the quotes collected, the
\* cache, the requests sent, the cache keys read and written, the number
\* of time.sleep calls and the consecutive-error counter
Acc(results, cache, requests, cache_gets, cache_sets, sleeps, error_count) ==
    [results |-> results, cache |-> cache, requests |-> requests,
     cache_gets |-> cache_gets, cache_sets |-> cache_sets, sleeps |-> sleeps,
     error_count |-> error_count]

\* _fallback_historical_rates: the while loop from current_date on;
\* day[d] is what the upstream answers to the single-date request for d
RECURSIVE FallbackLoop(_, _, _, _, _, _)
FallbackLoop(source, target, current_date, end_date, day, acc) ==
    IF ~(current_date <= end_date /\ current_date <= Today) THEN acc
    ELSE
    LET cache_key == GetCacheKey(source, target, current_date)
        hit == cache_key \in DOMAIN acc.cache
        out == CBGetExchangeRate(source, target, current_date, acc.cache,
                                 day[current_date])
        gets == acc.cache_gets \o <<cache_key>> \o (IF hit THEN <<>> ELSE out.cache_gets)
        sets == acc.cache_sets \o (IF hit THEN <<>> ELSE out.cache_sets)
        reqs == acc.requests \o (IF hit THEN <<>> ELSE out.requests)
        cache == IF hit THEN acc.cache ELSE out.cache
    IN  IF hit \/ out.exc = NoExc
        THEN FallbackLoop(source, target, current_date + 1, end_date, day,
                 Acc(Append(acc.results, IF hit THEN acc.cache[cache_key] ELSE out.result),
                     cache, reqs, gets, sets, acc.sleeps + 1, 0))
        ELSE IF out.exc.kind = "RateNotFoundError"
        THEN FallbackLoop(source, target, current_date + 1, end_date, day,
                 Acc(acc.results, cache, reqs, gets, sets, acc.sleeps + 1, 0))
        ELSE IF acc.error_count + 1 >= MaxErrors
        THEN Acc(acc.results, cache, reqs, gets, sets, acc.sleeps,
                 acc.error_count + 1)
        ELSE FallbackLoop(source, target, current_date + 1, end_date, day,
                 Acc(acc.results, cache, reqs, gets, sets, acc.sleeps + 1,
                     acc.error_count + 1))

\* what a historical lookup returns: like Outcome, with the list of quotes
\* as result, and the number of sleeps
ListOutcome(exc, acc) ==
    [exc |-> exc, result |-> acc.results, cache |-> acc.cache,
     requests |-> acc.requests, cache_gets |-> acc.cache_gets,
     cache_sets |-> acc.cache_sets, draws |-> 0, sleeps |-> acc.sleeps]

\* mutant: the loop has no inter-request delay
FallbackHistoricalRatesWithoutDelay(source, target, start_date, end_date, day, acc) ==
    LET done == FallbackLoop(source, target, start_date, end_date, day, acc)
    IN  ListOutcome(NoExc, [done EXCEPT !.results = SortByDate(@), !.sleeps = 0])

\* _fallback_historical_rates
FallbackHistoricalRates(source, target, start_date, end_date, day, acc) ==
    LET done == FallbackLoop(source, target, start_date, end_date, day, acc)
    IN  ListOutcome(NoExc, [done EXCEPT !.results = SortByDate(@)])

\* one entry of the /timeseries mapping, date_str -> rates:
\*   date   the date date_str parses to, 0 when fromisoformat raises
\*   shape  "by_target": a mapping holding the target; "scalar": a bare
\*          number; "other": anything else (a mapping without the target,
\*          null, a list); "garbage": a value Decimal() cannot parse
TsEntry(date, shape, rate) == [date |-> date, shape |-> shape, rate |-> rate]

\* the for loop over response.items() of get_historical_rates
RECURSIVE ParseTimeseries(_, _, _, _)
ParseTimeseries(source, target, entries, acc) ==
    IF entries = <<>> THEN acc
    ELSE
    LET e == Head(entries)
        result == Quote(source, target, e.date, e.rate, "CurrencyBeacon")
        cache_key == GetCacheKey(source, target, e.date)
    IN  IF e.date = 0 \/ e.shape \notin {"by_target", "scalar"}
        THEN ParseTimeseries(source, target, Tail(entries), acc)
        ELSE ParseTimeseries(source, target, Tail(entries),
                 Acc(Append(acc.results, result),
                     CacheSet(acc.cache, cache_key, result), acc.requests,
                     acc.cache_gets, Append(acc.cache_sets, cache_key),
                     acc.sleeps, acc.error_count))

\* the /timeseries request
TsRequest(base, start_date, end_date, symbols) ==
    [endpoint |-> "/timeseries", base |-> base, date |-> start_date,
     end_date |-> end_date, symbols |-> symbols]

\* mutant: the failure of /timeseries is raised to the caller
CBGetHistoricalRatesRaises(source_currency, exchanged_currency, start_date, end_date, cache, ts, day) ==
    LET source == Upper(source_currency)
        target == Upper(exchanged_currency)
        acc0 == Acc(<<>>, cache, <<>>, <<>>, <<>>, 0, 0)
        end == IF end_date > Today THEN Today ELSE end_date
        acc1 == [acc0 EXCEPT !.requests = <<TsRequest(source, start_date, end, target)>>]
        parsed == ParseTimeseries(source, target, ts.entries, acc1)
    IN  IF start_date > end_date
        THEN ListOutcome(Exc("ValueError", <<"start_date must be before end_date">>), acc0)
        ELSE IF start_date > Today THEN ListOutcome(NoExc, acc0)
        ELSE IF ts.kind = "fail"
        THEN ListOutcome(Exc("ProviderUnavailableError", <<"CurrencyBeacon request failed">>), acc1)
        ELSE IF ts.kind = "dict" /\ parsed.results # <<>>
        THEN ListOutcome(NoExc, [parsed EXCEPT !.results = SortByDate(@)])
        ELSE FallbackHistoricalRates(source, target, start_date, end, day,
                 IF ts.kind = "dict" THEN parsed ELSE acc1)

\* mutant: the end of the range is not limited to today
CBGetHistoricalRatesToEnd(source_currency, exchanged_currency, start_date, end_date, cache, ts, day) ==
    LET source == Upper(source_currency)
        target == Upper(exchanged_currency)
        acc0 == Acc(<<>>, cache, <<>>, <<>>, <<>>, 0, 0)
        acc1 == [acc0 EXCEPT !.requests = <<TsRequest(source, start_date, end_date, target)>>]
        parsed == ParseTimeseries(source, target, ts.entries, acc1)
    IN  IF start_date > end_date
        THEN ListOutcome(Exc("ValueError", <<"start_date must be before end_date">>), acc0)
        ELSE IF start_date > Today THEN ListOutcome(NoExc, acc0)
        ELSE IF ts.kind = "dict" /\ parsed.results # <<>>
        THEN ListOutcome(NoExc, [parsed EXCEPT !.results = SortByDate(@)])
        ELSE FallbackHistoricalRates(source, target, start_date, end_date, day,
                 IF ts.kind = "dict" THEN parsed ELSE acc1)

\* CurrencyBeaconAdapter.get_historical_rates; `ts` is what the upstream
\* answers to the /timeseries request: kind "fail" (_make_request raises),
\* "list", "dict" (with its entries) or "other"; day[d] as above
CBGetHistoricalRates(source_currency, exchanged_currency, start_date, end_date, cache, ts, day) ==
    LET source == Upper(source_currency)
        target == Upper(exchanged_currency)
        acc0 == Acc(<<>>, cache, <<>>, <<>>, <<>>, 0, 0)
        end == IF end_date > Today THEN Today ELSE end_date
        acc1 == [acc0 EXCEPT !.requests = <<TsRequest(source, start_date, end, target)>>]
        parsed == ParseTimeseries(source, target, ts.entries, acc1)
    IN  IF start_date > end_date
        THEN ListOutcome(Exc("ValueError", <<"start_date must be before end_date">>), acc0)
        ELSE IF start_date > Today THEN ListOutcome(NoExc, acc0)
        ELSE IF ts.kind = "dict" /\ parsed.results # <<>>
        THEN ListOutcome(NoExc, [parsed EXCEPT !.results = SortByDate(@)])
        ELSE FallbackHistoricalRates(source, target, start_date, end, day,
                 IF ts.kind = "dict" THEN parsed ELSE acc1)

\* MockAdapter.get_historical_rates: the while loop from current_date on
RECURSIVE MockHistoricalLoop(_, _, _, _, _, _)
MockHistoricalLoop(source_currency, exchanged_currency, current_date, end_date, drawn, acc) ==
    IF ~(current_date <= end_date) THEN acc
    ELSE LET out == MockGetExchangeRate(source_currency, exchanged_currency,
                                        current_date, drawn[current_date])
         IN  MockHistoricalLoop(source_currency, exchanged_currency,
                 current_date + 1, end_date, drawn,
                 [acc EXCEPT !.results = Append(@, out.result),
                             !.error_count = @ + out.draws])

\* mutant: the loop runs while current_date < end_date
MockGetHistoricalRatesExclusive(source_currency, exchanged_currency, start_date, end_date, drawn) ==
    LET acc == MockHistoricalLoop(source_currency, exchanged_currency,
                   start_date, end_date - 1, drawn,
                   Acc(<<>>, NoCache, <<>>, <<>>, <<>>, 0, 0))
    IN  [ListOutcome(NoExc, acc) EXCEPT !.draws = acc.error_count]

\* MockAdapter.get_historical_rates; drawn[d] is what random.uniform(0.5, 2.0)
\* returns in the call for day d
MockGetHistoricalRates(source_currency, exchanged_currency, start_date, end_date, drawn) ==
    LET acc == MockHistoricalLoop(source_currency, exchanged_currency,
                   start_date, end_date, drawn,
                   Acc(<<>>, NoCache, <<>>, <<>>, <<>>, 0, 0))
    IN  [ListOutcome(NoExc, acc) EXCEPT !.draws = acc.error_count]

----------------------------------------------------------------------------
(* ProviderManager (services/provider_manager.py) *)

\* order_by('priority', 'name')
ProviderLess(p, q) ==
    \/ p.priority < q.priority
    \/ p.priority = q.priority /\ StrLess(p.name, q.name)

RECURSIVE OrderBy(_)
OrderBy(S) ==
    IF S = {} THEN <<>>
    ELSE LET m == CHOOSE p \in S : \A q \in S \ {p} : ProviderLess(p, q)
         IN  <<m>> \o OrderBy(S \ {m})

\* mutant: the is_active filter is dropped
GetAllProviders(table) == OrderBy(Rows(table))

\* mutant: ordered by name alone
RECURSIVE OrderByName(_)
OrderByName(S) ==
    IF S = {} THEN <<>>
    ELSE LET m == CHOOSE p \in S : \A q \in S \ {p} : StrLess(p.name, q.name)
         IN  <<m>> \o OrderByName(S \ {m})

GetActiveByName(table) == OrderByName({p \in Rows(table) : p.is_active})

\* get_active_providers: Provider.objects.filter(is_active=True)
\*                                       .order_by('priority', 'name')
GetActiveProviders(table) == OrderBy({p \in Rows(table) : p.is_active})

\* _import_adapter_class succeeds for the two adapter classes of the package
Importable(adapter_path) == adapter_path \in {MockPath, CBPath}

\* the items of str(dict): 'key': value, joined by ", "
RECURSIVE StrItems(_)
StrItems(items) ==
    IF items = <<>> THEN <<>>
    ELSE LET item == <<39>> \o Head(items)[1] \o <<39, 58, 32>> \o Head(items)[2]
         IN  IF Len(items) = 1 THEN item
             ELSE item \o <<44, 32>> \o StrItems(Tail(items))

\* str(config): "None", or the dict's items between braces, in insertion
\* order
Str(config) ==
    IF config.none THEN <<78, 111, 110, 101>>
    ELSE <<123>> \o StrItems(config.items) \o <<125>>

\* the range of the model's hash
HashModulus == 16777216

\* hash(text): a function of the text alone within one process (the model
\* uses a polynomial over the characters)
RECURSIVE Hash(_)
Hash(text) ==
    IF text = <<>> THEN 0
    ELSE (Hash(SubSeq(text, 1, Len(text) - 1)) * 31 + text[Len(text)]) % HashModulus

\* cache_key = f"{adapter_path}:{hash(str(config))}"
CacheKey(adapter_path, config) == <<adapter_path, Hash(Str(config))>>

\* the exception classes of adapters/base.py and their subclass relation
AdapterErrorKinds ==
    {"ExchangeRateAdapterError", "ProviderUnavailableError", "RateNotFoundError"}

\* mutant: only ProviderUnavailableError is caught
CaughtUnavailableOnly(kind) == kind = "ProviderUnavailableError"

\* mutant: a bare `except Exception`
CaughtAnything(kind) == TRUE

\* `except ExchangeRateAdapterError as e` in execute_with_failover
Caught(kind) == kind \in AdapterErrorKinds

\* a provider name as it is printed in a message
NameStr(name) ==
    CASE name = P1 -> "P1" [] name = P2 -> "P2" [] name = P3 -> "P3"
      [] OTHER -> "?"

NoProvidersError ==
    Exc("ExchangeRateAdapterError",
        <<"No active exchange rate providers configured">>)

\* mutant: the last provider's error is re-raised as it is
ReraiseLast(last_error) == last_error

\* the error raised after the loop:
\*   f"All providers failed. Last error: {last_error}" if last_error
\*   else "All providers failed"         (an exception object is truthy)
AllFailedError(last_error) ==
    Exc("ExchangeRateAdapterError",
        IF last_error = NoExc THEN <<"All providers failed">>
        ELSE <<"All providers failed. Last error: ">> \o last_error.msg)

----------------------------------------------------------------------------
(* SpecFailover: one execute_with_failover(operation) call.  The operation  *)
(* is any callable; what it does on the adapter of each provider is drawn  *)
(* when the call starts (fo.op); a provider that is not active has no      *)
(* adapter in this call, and its entry is left at "ok".                    *)

\* what operation(adapter) can do: return, or raise
OpOutcomes == {"ok", "ProviderUnavailableError", "RateNotFoundError", "ValueError"}

\* the value operation(adapter) returns on provider `name`'s adapter
ResultOf(name) == <<name>>

\* no value
NoResult == <<>>

\* the message of the error operation(adapter) raises on provider `name`
MessageOf(kind, name) == <<kind, NameStr(name)>>

\* the threads of the service (Spec)
Threads == {1, 2}

\* no provider_name argument (None)
NoName == <<>>

\* a thread that runs no service call
ThIdle ==
    [pc |-> "idle", op |-> "None", source |-> <<>>, target |-> <<>>,
     date |-> 0, end_date |-> 0, provider |-> NoName, results |-> <<>>,
     found |-> FALSE, ret |-> <<>>, exc |-> NoExc, invoked |-> <<>>,
     would |-> 0, after |-> {}, converting |-> FALSE, amount |-> 0,
     conv |-> <<>>]

\* no adapter call yet
AdNone ==
    [adapter |-> "None", method |-> "None", source |-> <<>>, target |-> <<>>,
     date |-> 0,
     out |-> Outcome(NoExc, NoQuote, NoCache, <<>>, <<>>, <<>>, 0)]

\* load_historical_rates_task is not running
\*   ranges  the (start_date, end_date) of the load_historical_rates calls
\*           made so far, the first MaxLog of them
\*   errors  whether `errors` holds a message
\*   odd     whether the loop has run an odd number of iterations
TaskIdle ==
    [pc |-> "idle", start |-> 0, end |-> 0, batch_size |-> 0,
     current_start |-> 0, ranges |-> <<>>, errors |-> FALSE, odd |-> FALSE]

\* the generator after random.seed(): seeded from the system's entropy
Entropy == [seeded |-> FALSE, seed |-> 0, draws |-> 0]

\* a thread that runs no MockAdapter call
MkIdle == [pc |-> "idle", date |-> 0, base_rate |-> 0, u |-> 0, rate |-> 0]

FoIdle ==
    [pc |-> "idle", op |-> [n \in ProviderNames |-> "ok"], queue |-> <<>>,
     idx |-> 0, invoked |-> <<>>, instantiated |-> <<>>, last_error |-> NoExc,
     result |-> NoResult, error |-> NoExc, cache0 |-> {}]

InitFailover ==
    /\ today = StartDay
    /\ providers \in [ProviderNames -> ProviderRow]
    /\ adaptersCache = {}
    /\ fo = FoIdle
    /\ cbCache = NoCache
    /\ ad = AdNone
    /\ store = {}
    /\ nextId = 1
    /\ pm = PmNew
    /\ task = TaskIdle
    /\ rng = Entropy
    /\ mk = [t \in Threads |-> MkIdle]
    /\ th = [t \in Threads |-> ThIdle]

\* execute_with_failover, up to the loop: providers = get_active_providers()
FoCall ==
    /\ fo.pc = "idle"
    /\ \E op \in [ProviderNames -> OpOutcomes] :
         /\ \A n \in ProviderNames : ~providers[n].is_active => op[n] = "ok"
         /\ LET queue == GetActiveProviders(providers)
                f == [FoIdle EXCEPT !.op = op, !.queue = queue,
                                    !.cache0 = adaptersCache]
            IN  fo' = IF queue = <<>>
                      THEN [f EXCEPT !.pc = "raised", !.error = NoProvidersError]
                      ELSE [f EXCEPT !.pc = "loop", !.idx = 1]
    /\ UNCHANGED <<providers, adaptersCache, notManager>>

\* one iteration of `for provider in providers`, and what follows the loop
\* when it was the last one
FoTry ==
    /\ fo.pc = "loop"
    /\ LET provider == fo.queue[fo.idx]
           key == CacheKey(provider.adapter_path, provider.config)
           cached == key \in adaptersCache
           imported == cached \/ Importable(provider.adapter_path)
           \* the exception of this iteration, or None
           exc == IF ~imported
                  THEN Exc("ImportError", <<"Cannot import adapter class", provider.adapter_path>>)
                  ELSE IF fo.op[provider.name] = "ok" THEN NoExc
                  ELSE Exc(fo.op[provider.name],
                           MessageOf(fo.op[provider.name], provider.name))
           f == [fo EXCEPT
                   !.invoked = IF imported THEN Append(@, provider.name) ELSE @,
                   !.instantiated = IF imported /\ ~cached
                                    THEN Append(@, provider.adapter_path) ELSE @]
       IN  /\ adaptersCache' = IF imported THEN adaptersCache \cup {key}
                               ELSE adaptersCache
           /\ fo' = IF exc = NoExc
                    THEN [f EXCEPT !.pc = "returned",
                                   !.result = ResultOf(provider.name)]
                    ELSE IF ~Caught(exc.kind)
                    THEN [f EXCEPT !.pc = "raised", !.error = exc]
                    ELSE IF fo.idx < Len(fo.queue)
                    THEN [f EXCEPT !.last_error = exc, !.idx = @ + 1]
                    ELSE [f EXCEPT !.last_error = exc, !.pc = "raised",
                                   !.error = AllFailedError(exc)]
    /\ UNCHANGED <<providers, notManager>>

\* the call is over; the manager (a process-wide singleton) serves the next
FoDone ==
    /\ fo.pc \in {"returned", "raised"}
    /\ fo' = FoIdle
    /\ UNCHANGED <<providers, adaptersCache, notManager>>

\* clear_cache
ClearCache ==
    /\ fo.pc = "idle"
    /\ adaptersCache # {}
    /\ adaptersCache' = {}
    /\ UNCHANGED <<providers, fo, notManager>>

NextFailover == FoCall \/ FoTry \/ FoDone \/ ClearCache

SpecFailover == InitFailover /\ [][NextFailover]_vars

----------------------------------------------------------------------------
(* SpecAdapter: calls on one MockAdapter and one CurrencyBeaconAdapter,     *)
(* which share the process-local cache, with any upstream behaviour.       *)

\* the codes a caller passes as source and as target
CallerSources == {EUR, eur}
CallerTargets == {EUR, eUr, USD, usd}

\* the rates the upstream quotes
UpstreamRates == {1085000, 920000}

\* the rate the upstream quotes to the adapter calls of SpecAdapter
AdapterRates == {1085000}

\* what random.uniform(0.5, 2.0) may return
DrawnBases == {500000, 2000000}

InitAdapter ==
    /\ today = StartDay
    /\ providers = [n \in ProviderNames |->
                      [priority |-> 1, is_active |-> FALSE,
                       adapter_path |-> MockPath, config |-> EmptyConfig]]
    /\ adaptersCache = {}
    /\ fo = FoIdle
    /\ cbCache = NoCache
    /\ ad = AdNone
    /\ store = {}
    /\ nextId = 1
    /\ pm = PmNew
    /\ task = TaskIdle
    /\ rng = Entropy
    /\ mk = [t \in Threads |-> MkIdle]
    /\ th = [t \in Threads |-> ThIdle]

\* the targets asked of the mock adapter: those above and a currency its
\* base-rate table does not list
MockTargets == CallerTargets \cup {JPY}

\* a caller calls MockAdapter.get_exchange_rate
AdMockGetExchangeRate ==
    /\ \E source \in CallerSources, target \in MockTargets, date \in Dates,
          drawn \in DrawnBases :
         ad' = [adapter |-> "Mock Provider", method |-> "get_exchange_rate",
                source |-> source, target |-> target, date |-> date,
                out |-> MockGetExchangeRate(source, target, date, drawn)]
    /\ UNCHANGED <<cbCache, notAdapter>>

\* a caller calls CurrencyBeaconAdapter.get_exchange_rate
AdCBGetExchangeRate ==
    /\ \E source \in CallerSources, target \in CallerTargets, date \in Dates,
          answer \in Answers({USD}, AdapterRates) :
         LET out == CBGetExchangeRate(source, target, date, cbCache, answer)
         IN  /\ ad' = [adapter |-> "CurrencyBeacon", method |-> "get_exchange_rate",
                       source |-> source, target |-> target, date |-> date,
                       out |-> out]
             /\ cbCache' = out.cache
    /\ UNCHANGED notAdapter

\* a caller calls MockAdapter.get_latest_rate
AdMockGetLatestRate ==
    /\ \E source \in CallerSources, target \in CallerTargets,
          drawn \in DrawnBases :
         ad' = [adapter |-> "Mock Provider", method |-> "get_latest_rate",
                source |-> source, target |-> target, date |-> Today,
                before |-> cbCache, answer |-> <<>>, drawn |-> drawn,
                out |-> MockGetLatestRate(source, target, drawn)]
    /\ UNCHANGED <<cbCache, notAdapter>>

\* a caller calls CurrencyBeaconAdapter.get_latest_rate
AdCBGetLatestRate ==
    /\ \E source \in CallerSources, target \in CallerTargets,
          answer \in Answers({USD}, AdapterRates) :
         LET out == CBGetLatestRate(source, target, cbCache, answer)
         IN  /\ ad' = [adapter |-> "CurrencyBeacon", method |-> "get_latest_rate",
                       source |-> source, target |-> target, date |-> Today,
                       before |-> cbCache, answer |-> answer, drawn |-> 0,
                       out |-> out]
             /\ cbCache' = out.cache
    /\ UNCHANGED notAdapter

\* the target lists a caller passes to the batch lookup
TargetLists == {NoTargets, Targets(<<usd>>), Targets(<<USD, EUR>>)}

\* a caller calls MockAdapter.get_exchange_rates_for_date
AdMockGetExchangeRatesForDate ==
    /\ \E source \in CallerSources, date \in Dates, targets \in TargetLists,
          drawn \in DrawnBases :
         ad' = [adapter |-> "Mock Provider", method |-> "get_exchange_rates_for_date",
                source |-> source, target |-> <<>>, date |-> date,
                targets |-> targets, before |-> cbCache, answer |-> <<>>,
                out |-> MockGetExchangeRatesForDate(source, date, targets, drawn)]
    /\ UNCHANGED <<cbCache, notAdapter>>

\* a caller calls CurrencyBeaconAdapter.get_exchange_rates_for_date
AdCBGetExchangeRatesForDate ==
    /\ \E source \in CallerSources, date \in Dates, targets \in TargetLists,
          answer \in Answers({USD}, AdapterRates) :
         LET out == CBGetExchangeRatesForDate(source, date, targets, cbCache, answer)
         IN  /\ ad' = [adapter |-> "CurrencyBeacon",
                       method |-> "get_exchange_rates_for_date",
                       source |-> source, target |-> <<>>, date |-> date,
                       targets |-> targets, before |-> cbCache,
                       answer |-> answer, out |-> out]
             /\ cbCache' = out.cache
    /\ UNCHANGED notAdapter

\* a cache entry outlives its time-to-live (cache_ttl) and is dropped
CacheExpire ==
    /\ \E k \in DOMAIN cbCache :
         cbCache' = [j \in DOMAIN cbCache \ {k} |-> cbCache[j]]
    /\ UNCHANGED <<ad, notAdapter>>

NextAdapter == AdMockGetExchangeRate \/ AdCBGetExchangeRate \/ CacheExpire

SpecAdapter == InitAdapter /\ [][NextAdapter]_vars

\* SpecLatest: the latest-rate and batch lookups of both adapters, with the
\* single-date lookups of the remote adapter that fill the cache
NextLatest ==
    \/ AdCBGetExchangeRate
    \/ AdMockGetLatestRate
    \/ AdCBGetLatestRate
    \/ AdMockGetExchangeRatesForDate
    \/ AdCBGetExchangeRatesForDate
    \/ CacheExpire

SpecLatest == InitAdapter /\ [][NextLatest]_vars

----------------------------------------------------------------------------
(* ExchangeRateService (services/exchange_rate_service.py) and the          *)
(* CurrencyExchangeRate table (apps/currencies/models.py)                  *)

\* the codes of the Currency table
KnownCurrencies == {EUR, USD}

\* a CurrencyExchangeRate row
Row(id, source, target, date, rate) ==
    [id |-> id, source_currency |-> source, exchanged_currency |-> target,
     valuation_date |-> date, rate_value |-> rate]

\* the rows a filter on (source code, target code, valuation_date) selects
RowsOf(rows, source, target, date) ==
    {r \in rows : /\ r.source_currency = source
                  /\ r.exchanged_currency = target
                  /\ r.valuation_date = date}

\* mutant: the store is never consulted
GetRateFromDbNone(rows, source, target, date) == {}

\* mutant: only a record valued today is taken from the store
GetRateFromDbFresh(rows, source, target, date) ==
    {r \in RowsOf(rows, source, target, date) : r.valuation_date = Today}

\* _get_rate_from_db: the rows the lookup selects
GetRateFromDb(rows, source, target, date) == RowsOf(rows, source, target, date)

\* mutant: the table has no unique_together, every INSERT goes through
InsertUnchecked(rows, row) == [ok |-> TRUE, rows |-> rows \cup {row}]

\* INSERT under unique_together (source_currency, exchanged_currency,
\* valuation_date): a second row of a key is refused (IntegrityError)
Insert(rows, row) ==
    IF RowsOf(rows, row.source_currency, row.exchanged_currency,
              row.valuation_date) # {}
    THEN [ok |-> FALSE, rows |-> rows]
    ELSE [ok |-> TRUE, rows |-> rows \cup {row}]

\* UPDATE ... SET rate_value of the row(s) of a key
Update(rows, source, target, date, rate) ==
    {IF r \in RowsOf(rows, source, target, date)
     THEN [r EXCEPT !.rate_value = rate] ELSE r : r \in rows}

\* update_or_create(source_currency, exchanged_currency, valuation_date,
\* defaults={'rate_value': ...}) once its SELECT has answered `found`:
\* UPDATE the row, or INSERT one and, if the INSERT is refused because the
\* row has appeared meanwhile, UPDATE that row
UpdateOrCreateWrite(rows, nid, found, q) ==
    LET new == Row(nid, q.source_currency, q.exchanged_currency,
                   q.valuation_date, q.rate_value)
    IN  IF ~found /\ Insert(rows, new).ok
        THEN [rows |-> Insert(rows, new).rows, nid |-> nid + 1, row |-> new]
        ELSE [rows |-> Update(rows, q.source_currency, q.exchanged_currency,
                              q.valuation_date, q.rate_value),
              nid |-> IF found THEN nid ELSE nid + 1,
              row |-> [(CHOOSE r \in RowsOf(rows, q.source_currency,
                                            q.exchanged_currency,
                                            q.valuation_date) : TRUE)
                          EXCEPT !.rate_value = q.rate_value]]

\* mutant: create() in place of update_or_create()
CreateOnly(rows, nid, q) ==
    [rows |-> rows \cup {Row(nid, q.source_currency, q.exchanged_currency,
                             q.valuation_date, q.rate_value)},
     nid |-> nid + 1,
     row |-> Row(nid, q.source_currency, q.exchanged_currency,
                 q.valuation_date, q.rate_value)]

\* update_or_create in one step (inside transaction.atomic)
UpdateOrCreate(rows, nid, q) ==
    UpdateOrCreateWrite(rows, nid,
        RowsOf(rows, q.source_currency, q.exchanged_currency,
               q.valuation_date) # {}, q)

\* _bulk_save_rates: the loop over results inside transaction.atomic();
\* st = [rows, nid, saved]
RECURSIVE BulkSaveRates(_, _)
BulkSaveRates(results, st) ==
    IF results = <<>> THEN st
    ELSE LET q == Head(results)
             w == UpdateOrCreate(st.rows, st.nid, q)
         IN  IF q.source_currency \notin KnownCurrencies
                \/ q.exchanged_currency \notin KnownCurrencies
             THEN BulkSaveRates(Tail(results), st)
             ELSE BulkSaveRates(Tail(results),
                      [rows |-> w.rows, nid |-> w.nid,
                       saved |-> Append(st.saved, w.row)])

\* the quotes of `results` the loop writes: those with known currency codes
Writable(results) ==
    SelectSeq(results, LAMBDA q : /\ q.source_currency \in KnownCurrencies
                                  /\ q.exchanged_currency \in KnownCurrencies)

\* mutant: the loop runs outside a transaction, what it wrote stays
NotAtomic(before, after, exc) ==
    [rows |-> after.rows, nid |-> after.nid, saved |-> <<>>, exc |-> exc]

\* with transaction.atomic(): an exception inside the block rolls back the
\* rows it wrote (the id sequence is not rolled back) and leaves the block
Atomic(before, after, exc) ==
    IF exc = NoExc
    THEN [rows |-> after.rows, nid |-> after.nid, saved |-> after.saved,
          exc |-> NoExc]
    ELSE [rows |-> before.rows, nid |-> after.nid, saved |-> <<>>, exc |-> exc]

\* _bulk_save_rates when the database accepts `writes` update_or_create
\* calls of the loop and raises on the next one
BulkSaveRatesUpTo(results, st, writes) ==
    IF writes >= Len(Writable(results))
    THEN Atomic(st, BulkSaveRates(results, st), NoExc)
    ELSE Atomic(st, BulkSaveRates(SubSeq(Writable(results), 1, writes), st),
                Exc("DatabaseError", <<>>))

\* what the upstream and the random module will answer during one call
Env(ts, day, drawn) == [ts |-> ts, day |-> day, drawn |-> drawn]

\* the outcome of a single-rate method, its result made a list
AsList(out) ==
    [out EXCEPT !.result = IF out.exc = NoExc THEN <<@>> ELSE <<>>]

\* fetch_operation / fetch_historical applied to the adapter of a provider
\* row; the mock adapter never touches the process cache
Operate(provider, call, cache, env) ==
    IF provider.adapter_path = MockPath
    THEN IF call.op = "resolve"
         THEN [AsList(MockGetExchangeRate(call.source, call.target,
                          call.date, env.drawn[call.date]))
                  EXCEPT !.cache = cache]
         ELSE [MockGetHistoricalRates(call.source, call.target, call.date,
                                      call.end_date, env.drawn)
                  EXCEPT !.cache = cache]
    ELSE IF call.op = "resolve"
         THEN AsList(CBGetExchangeRate(call.source, call.target,
                         call.date, cache, env.day[call.date]))
         ELSE CBGetHistoricalRates(call.source, call.target, call.date,
                                   call.end_date, cache, env.ts, env.day)

\* what a fetch leaves: the exception or the quotes, the two caches and the
\* providers whose adapter was invoked
Fetched(exc, results, acache, cache, invoked) ==
    [exc |-> exc, results |-> results, acache |-> acache, cache |-> cache,
     invoked |-> invoked]

\* what operation(adapter) leaves, from the outcome of the adapter method
Operated(out, acache, invoked) ==
    Fetched(out.exc, out.result, acache, out.cache, invoked)

\* get_adapter_for_provider, then operation(adapter)
Invoke(provider, call, acache, cache, env, invoked) ==
    IF CacheKey(provider.adapter_path, provider.config) \notin acache
       /\ ~Importable(provider.adapter_path)
    THEN Fetched(Exc("ImportError", <<"Cannot import adapter class",
                                      provider.adapter_path>>),
                 <<>>, acache, cache, invoked)
    ELSE Operated(Operate(provider, call, cache, env),
                  acache \cup {CacheKey(provider.adapter_path, provider.config)},
                  Append(invoked, provider.name))

\* execute_with_failover: the for loop from queue[idx] on, f being what
\* the attempt on queue[idx] left
RECURSIVE FailoverLoop(_, _, _, _, _)
FailoverLoop(queue, idx, call, env, f) ==
    IF f.exc = NoExc \/ ~Caught(f.exc.kind) THEN f
    ELSE IF idx < Len(queue)
    THEN FailoverLoop(queue, idx + 1, call, env,
             Invoke(queue[idx + 1], call, f.acache, f.cache, env, f.invoked))
    ELSE [f EXCEPT !.exc = AllFailedError(f.exc)]

\* execute_with_failover(operation)
ExecuteWithFailover(table, call, acache, cache, env) ==
    LET queue == GetActiveProviders(table)
    IN  IF queue = <<>>
        THEN Fetched(NoProvidersError, <<>>, acache, cache, <<>>)
        ELSE FailoverLoop(queue, 1, call, env,
                 Invoke(queue[1], call, acache, cache, env, <<>>))

\* Provider.objects.get(name__iexact=provider_name, is_active=True)
ProvidersNamed(table, provider_name) ==
    {p \in Rows(table) : Upper(p.name) = Upper(provider_name) /\ p.is_active}

\* mutant: a name that matches no active provider falls back to failover
FetchFromProviderFallsBack(table, call, acache, cache, env) ==
    IF call.provider = NoName \/ ProvidersNamed(table, call.provider) = {}
    THEN ExecuteWithFailover(table, call, acache, cache, env)
    ELSE Invoke(CHOOSE p \in ProvidersNamed(table, call.provider) : TRUE,
                call, acache, cache, env, <<>>)

\* mutant: the provider name is ignored
FetchFromProviderIgnoresName(table, call, acache, cache, env) ==
    ExecuteWithFailover(table, call, acache, cache, env)

\* _fetch_from_provider, and the same choice in load_historical_rates
FetchFromProvider(table, call, acache, cache, env) ==
    LET named == ProvidersNamed(table, call.provider)
    IN  IF call.provider = NoName
        THEN ExecuteWithFailover(table, call, acache, cache, env)
        ELSE IF named = {}
        THEN Fetched(IF call.op = "resolve"
                     THEN Exc("ExchangeRateAdapterError",
                              <<"Provider not found or inactive">>)
                     ELSE Exc("DoesNotExist", <<"Provider matching query does not exist">>),
                     <<>>, acache, cache, <<>>)
        ELSE Invoke(CHOOSE p \in named : TRUE, call, acache, cache, env, <<>>)

----------------------------------------------------------------------------
(* Spec: the service called from two threads of one process *)

\* what callers pass
SvcSources == {EUR, eur}
SvcTargets == {EUR, usd}
SvcProviders == {NoName}

\* the provider tables of Spec: the remote adapter first, then the mock
SvcTables ==
    {(P1 :> [priority |-> 1, is_active |-> a1, adapter_path |-> CBPath,
             config |-> EmptyConfig])
     @@ (P2 :> [priority |-> 2, is_active |-> a2, adapter_path |-> MockPath,
                config |-> EmptyConfig])
     @@ (P3 :> [priority |-> 2, is_active |-> FALSE, adapter_path |-> BadPath,
                config |-> EmptyConfig]) : a1 \in BOOLEAN, a2 \in BOOLEAN}

\* a JSON body whose top-level rates hold `target` at `rate`
RatesBody(target, rate) ==
    [kind |-> "json", rates |-> (target :> rate), nested |-> <<>>]

\* what the upstream may answer to a single-date request for `target` while
\* it quotes `rate`: a failure, a body without the target, the quote
SvcAnswers(target, rate) ==
    {[kind |-> "fail", rates |-> <<>>, nested |-> <<>>],
     [kind |-> "json", rates |-> <<>>, nested |-> <<>>],
     RatesBody(target, rate)}

\* what the upstream may answer to /timeseries while it quotes `rate`: a
\* failure, or a mapping with one entry for each day asked for
SvcTimeseries(start_date, end_date, rate) ==
    {[kind |-> "fail", entries |-> <<>>],
     [kind |-> "dict",
      entries |-> [i \in 1..((IF end_date > Today THEN Today ELSE end_date)
                                - start_date + 1)
                     |-> TsEntry(start_date + i - 1, "by_target", rate)]]}

\* random.uniform(0.5, 2.0) is not reached for the pairs of Spec
SvcDrawn == [d \in Dates |-> 500000]

Init ==
    /\ today = StartDay
    /\ providers \in SvcTables
    /\ adaptersCache = {}
    /\ fo = FoIdle
    /\ cbCache = NoCache
    /\ ad = AdNone
    /\ store = {}
    /\ nextId = 1
    /\ pm = PmNew
    /\ task = TaskIdle
    /\ rng = Entropy
    /\ mk = [t \in Threads |-> MkIdle]
    /\ th = [t \in Threads |-> ThIdle]

\* the threads whose call has returned
Returned == {u \in Threads : th[u].pc = "done"}

\* get_exchange_rate_data up to the answer of _get_rate_from_db, its
\* arguments drawn from the given sets; `would` is the rate the upstream
\* quotes for the pair while the call runs
ResolveCallFrom(t, sources, targets, dates, names) ==
    /\ th[t].pc = "idle"
    /\ \E source_currency \in sources, exchanged_currency \in targets,
          valuation_date \in dates, provider \in names,
          would \in UpstreamRates :
         LET source == Upper(source_currency)
             target == Upper(exchanged_currency)
             existing == GetRateFromDb(store, source, target, valuation_date)
             call == [ThIdle EXCEPT !.op = "resolve", !.source = source,
                                    !.target = target, !.date = valuation_date,
                                    !.provider = provider, !.would = would,
                                    !.after = Returned]
         IN  th' = [th EXCEPT ![t] =
                 IF existing = {} THEN [call EXCEPT !.pc = "fetch"]
                 ELSE IF Cardinality(existing) > 1
                 THEN [call EXCEPT !.pc = "done",
                          !.exc = Exc("MultipleObjectsReturned", <<>>)]
                 ELSE [call EXCEPT !.pc = "done",
                          !.ret = <<CHOOSE r \in existing : TRUE>>]]
    /\ UNCHANGED <<today, pm, task, rng, mk, providers, adaptersCache, fo, cbCache, ad, store, nextId>>

\* get_exchange_rate_data called with the arguments of Spec
ResolveCall(t) == ResolveCallFrom(t, SvcSources, SvcTargets, Dates, SvcProviders)

\* the fetch has left f: the thread goes on to `pc` with the quotes, or
\* the exception leaves the call
FetchReturns(t, pc, f) ==
    /\ th' = [th EXCEPT ![t] =
          IF f.exc = NoExc
          THEN [@ EXCEPT !.pc = pc, !.results = f.results, !.invoked = f.invoked]
          ELSE [@ EXCEPT !.pc = "done", !.exc = f.exc, !.invoked = f.invoked]]
    /\ adaptersCache' = f.acache
    /\ cbCache' = f.cache

\* _fetch_from_provider
ResolveFetch(t) ==
    /\ th[t].pc = "fetch" /\ th[t].op = "resolve"
    /\ \E answer \in SvcAnswers(th[t].target, th[t].would) :
         FetchReturns(t, "save",
             FetchFromProvider(providers, th[t], adaptersCache, cbCache,
                 Env([kind |-> "fail", entries |-> <<>>],
                     [d \in Dates |-> answer], SvcDrawn)))
    /\ UNCHANGED <<today, pm, task, rng, mk, providers, fo, ad, store, nextId>>

\* mutant: the row is written before the currencies are looked up
ResolveSaveWritesFirst(t) ==
    /\ th[t].pc = "save"
    /\ LET result == th[t].results[1]
           unknown == \/ result.source_currency \notin KnownCurrencies
                      \/ result.exchanged_currency \notin KnownCurrencies
       IN  /\ th' = [th EXCEPT ![t] =
                 IF unknown
                 THEN [@ EXCEPT !.pc = "done",
                          !.exc = Exc("DoesNotExist",
                                      <<"Currency matching query does not exist">>)]
                 ELSE [@ EXCEPT !.pc = "write",
                          !.found = RowsOf(store, result.source_currency,
                                           result.exchanged_currency,
                                           result.valuation_date) # {}]]
           /\ store' = IF unknown
                       THEN store \cup {Row(nextId, result.source_currency,
                                            result.exchanged_currency,
                                            result.valuation_date,
                                            result.rate_value)}
                       ELSE store
           /\ nextId' = IF unknown THEN nextId + 1 ELSE nextId
    /\ UNCHANGED <<today, pm, task, rng, mk, providers, adaptersCache, fo, cbCache, ad>>

\* _save_rate_to_db up to the SELECT of update_or_create
ResolveSave(t) ==
    /\ th[t].pc = "save"
    /\ LET result == th[t].results[1]
       IN  th' = [th EXCEPT ![t] =
               IF result.source_currency \notin KnownCurrencies
                  \/ result.exchanged_currency \notin KnownCurrencies
               THEN [@ EXCEPT !.pc = "done",
                        !.exc = Exc("DoesNotExist",
                                    <<"Currency matching query does not exist">>)]
               ELSE [@ EXCEPT !.pc = "write",
                        !.found = RowsOf(store, result.source_currency,
                                         result.exchanged_currency,
                                         result.valuation_date) # {}]]
    /\ UNCHANGED <<today, pm, task, rng, mk, providers, adaptersCache, fo, cbCache, ad, store, nextId>>

\* the UPDATE or INSERT of update_or_create, and the return
ResolveWrite(t) ==
    /\ th[t].pc = "write"
    /\ LET w == UpdateOrCreateWrite(store, nextId, th[t].found, th[t].results[1])
       IN  /\ store' = w.rows
           /\ nextId' = w.nid
           /\ th' = [th EXCEPT ![t] = [@ EXCEPT !.pc = "done", !.ret = <<w.row>>]]
    /\ UNCHANGED <<today, pm, task, rng, mk, providers, adaptersCache, fo, cbCache, ad>>

\* load_historical_rates up to the fetch, its arguments drawn from the
\* given sets (ranges: pairs <<start_date, end_date>>)
LoadCallFrom(t, sources, targets, ranges, names) ==
    /\ th[t].pc = "idle"
    /\ \E source_currency \in sources, exchanged_currency \in targets,
          range \in ranges, provider \in names, would \in UpstreamRates :
         th' = [th EXCEPT ![t] =
                  [ThIdle EXCEPT !.pc = "fetch", !.op = "load",
                                 !.source = Upper(source_currency),
                                 !.target = Upper(exchanged_currency),
                                 !.date = range[1], !.end_date = range[2],
                                 !.provider = provider, !.would = would,
                                 !.after = Returned]]
    /\ UNCHANGED <<today, pm, task, rng, mk, providers, adaptersCache, fo, cbCache, ad, store, nextId>>

\* load_historical_rates called with the arguments of Spec
LoadCall(t) == LoadCallFrom(t, SvcSources, SvcTargets, Dates \X Dates, SvcProviders)

\* the fetch of load_historical_rates
LoadFetch(t) ==
    /\ th[t].pc = "fetch" /\ th[t].op = "load"
    /\ \E ts \in SvcTimeseries(th[t].date, th[t].end_date, th[t].would),
          answer \in SvcAnswers(th[t].target, th[t].would) :
         FetchReturns(t, "bulk",
             FetchFromProvider(providers, th[t], adaptersCache, cbCache,
                 Env(ts, [d \in Dates |-> answer], SvcDrawn)))
    /\ UNCHANGED <<today, pm, task, rng, mk, providers, fo, ad, store, nextId>>

\* _bulk_save_rates: one transaction
LoadBulk(t) ==
    /\ th[t].pc = "bulk"
    /\ LET st == BulkSaveRates(th[t].results,
                     [rows |-> store, nid |-> nextId, saved |-> <<>>])
       IN  /\ store' = st.rows
           /\ nextId' = st.nid
           /\ th' = [th EXCEPT ![t] = [@ EXCEPT !.pc = "done", !.ret = st.saved]]
    /\ UNCHANGED <<today, pm, task, rng, mk, providers, adaptersCache, fo, cbCache, ad>>

\* _bulk_save_rates when the database may raise during the loop
LoadBulkOrFail(t) ==
    /\ th[t].pc = "bulk"
    /\ \E writes \in 0..Len(th[t].results) :
         LET st == BulkSaveRatesUpTo(th[t].results,
                       [rows |-> store, nid |-> nextId, saved |-> <<>>], writes)
         IN  /\ store' = st.rows
             /\ nextId' = st.nid
             /\ th' = [th EXCEPT ![t] = [@ EXCEPT !.pc = "done", !.ret = st.saved,
                                                  !.exc = st.exc]]
    /\ UNCHANGED <<today, pm, task, rng, mk, providers, adaptersCache, fo, cbCache, ad>>

Next ==
    \E t \in Threads :
        \/ ResolveCall(t) \/ ResolveFetch(t) \/ ResolveSave(t) \/ ResolveWrite(t)
        \/ LoadCall(t) \/ LoadFetch(t) \/ LoadBulk(t)

Spec == Init /\ [][Next]_vars

----------------------------------------------------------------------------
(* SpecConvert: convert_amount called from two threads.  Amounts are in    *)
(* hundredths, as the callers validate them (decimal_places=2).            *)

\* mutant: the product is cut to 2 fractional digits, not rounded
RoundProductTruncates(amount, rate_value) ==
    ((amount * (rate_value \div 1000)) + ((amount * (rate_value % 1000)) \div 1000))
        \div 1000

\* round(amount * rate.rate_value, 2): the product of hundredths and
\* millionths, taken in two limbs of three digits so that it stays within
\* the integers of the checker, rounded half to even as Decimal does
RoundProduct(amount, rate_value) ==
    LET low == amount * (rate_value % 1000)
        high == (amount * (rate_value \div 1000)) + (low \div 1000)
        quotient == high \div 1000
        remainder == ((high % 1000) * 1000) + (low % 1000)
    IN  IF remainder > 500000 \/ (remainder = 500000 /\ quotient % 2 = 1)
        THEN quotient + 1
        ELSE quotient

\* the dict convert_amount returns
Conversion(source, target, amount, converted_amount, rate_value, date) ==
    <<[source_currency |-> source, exchanged_currency |-> target,
       original_amount |-> amount, converted_amount |-> converted_amount,
       rate_value |-> rate_value, valuation_date |-> date]>>

\* what callers pass to convert_amount
ConvSources == {EUR}
ConvTargets == {eur, usd}
Amounts == {100, 333, 10000}

\* convert_amount up to the answer of _get_rate_from_db; without a date
\* the valuation date is today
ConvertCall(t) ==
    /\ th[t].pc = "idle"
    /\ \E source_currency \in ConvSources, exchanged_currency \in ConvTargets,
          amount \in Amounts, dated \in BOOLEAN, date \in Dates,
          would \in UpstreamRates :
         LET valuation_date == IF dated THEN date ELSE Today
             source == Upper(source_currency)
             target == Upper(exchanged_currency)
             existing == GetRateFromDb(store, source, target, valuation_date)
             call == [ThIdle EXCEPT !.op = "resolve", !.source = source,
                                    !.target = target, !.date = valuation_date,
                                    !.would = would, !.after = Returned,
                                    !.converting = TRUE, !.amount = amount]
         IN  /\ dated \/ date = Today
             /\ th' = [th EXCEPT ![t] =
                 IF source = target
                 THEN [call EXCEPT !.pc = "converted",
                          !.conv = Conversion(source, target, amount, amount,
                                              One, valuation_date)]
                 ELSE IF existing = {} THEN [call EXCEPT !.pc = "fetch"]
                 ELSE IF Cardinality(existing) > 1
                 THEN [call EXCEPT !.pc = "done",
                          !.exc = Exc("MultipleObjectsReturned", <<>>)]
                 ELSE [call EXCEPT !.pc = "done",
                          !.ret = <<CHOOSE r \in existing : TRUE>>]]
    /\ UNCHANGED <<today, pm, task, rng, mk, providers, adaptersCache, fo, cbCache, ad, store, nextId>>

\* convert_amount after get_exchange_rate_data has returned or raised
ConvertReturn(t) ==
    /\ th[t].pc = "done" /\ th[t].converting
    /\ th' = [th EXCEPT ![t] =
          IF th[t].exc # NoExc THEN [@ EXCEPT !.pc = "converted"]
          ELSE [@ EXCEPT !.pc = "converted",
                   !.conv = Conversion(th[t].source, th[t].target, th[t].amount,
                                RoundProduct(th[t].amount, th[t].ret[1].rate_value),
                                th[t].ret[1].rate_value, th[t].date)]]
    /\ UNCHANGED <<today, pm, task, rng, mk, providers, adaptersCache, fo, cbCache, ad, store, nextId>>

NextConvert ==
    \E t \in Threads :
        \/ ConvertCall(t) \/ ResolveFetch(t) \/ ResolveSave(t)
        \/ ResolveWrite(t) \/ ConvertReturn(t)

SpecConvert == Init /\ [][NextConvert]_vars

----------------------------------------------------------------------------
(* SpecLoad: load_historical_rates against a database that may fail *)

\* the targets and ranges load_historical is asked for; GBP is no row of
\* the Currency table
LoadTargets == {usd, GBP}
LoadRanges == {<<1, 1>>, <<1, Today>>, <<Today, MaxDate>>}

\* load_historical_rates(source, target, start, end)
FailingLoadCall(t) == LoadCallFrom(t, {EUR}, LoadTargets, LoadRanges, {NoName})

NextLoad ==
    \E t \in Threads :
        \/ FailingLoadCall(t) \/ LoadFetch(t) \/ LoadBulkOrFail(t)

SpecLoad == Init /\ [][NextLoad]_vars

----------------------------------------------------------------------------
(* SpecNamed: the service called with a provider_name *)

\* names of no row of the Provider table, and a row's name in lower case
PX == <<80, 88>>
p2 == <<112, 50>>

\* the provider_name arguments: an unknown name, the three rows' names
NamedProviders == {PX, P1, p2, P3}

\* the ranges load_historical is asked for
NamedRanges == {<<1, 1>>, <<1, Today>>}

\* get_exchange_rate_data(source, target, date, provider_name)
NamedResolveCall(t) ==
    ResolveCallFrom(t, {EUR}, {usd}, Dates, NamedProviders)

\* load_historical_rates(source, target, start, end, provider_name)
NamedLoadCall(t) ==
    LoadCallFrom(t, {EUR}, {usd}, NamedRanges, NamedProviders)

NextNamed ==
    \E t \in Threads :
        \/ NamedResolveCall(t) \/ ResolveFetch(t) \/ ResolveSave(t)
        \/ ResolveWrite(t)
        \/ NamedLoadCall(t) \/ LoadFetch(t) \/ LoadBulk(t)

SpecNamed == Init /\ [][NextNamed]_vars

----------------------------------------------------------------------------
(* SpecResolve: get_exchange_rate_data called from two threads for a pair  *)
(* the Currency table knows and for one it does not know, with and without *)
(* a provider name.                                                         *)

\* get_exchange_rate_data(source, target, date, provider_name): the target
\* GBP is no row of the Currency table, PX names no provider
ResolveCallAny(t) ==
    ResolveCallFrom(t, {EUR}, {usd, GBP}, Dates, {NoName, PX, P2})

NextResolve ==
    \E t \in Threads :
        \/ ResolveCallAny(t)
        \/ ResolveFetch(t)
        \/ ResolveSave(t)
        \/ ResolveWrite(t)

SpecResolve == Init /\ [][NextResolve]_vars

----------------------------------------------------------------------------
(* SpecHistorical: historical and single-date lookups on the adapters over *)
(* days that pass, with the process-local cache kept from call to call.    *)
(* `ad` is the call whose outcome the caller is looking at.                 *)

\* the process is followed from day LastDay - 1 to day LastDay; a range of
\* LastDay dates is one date longer than the run of failures that stops
\* the per-day loop
LastDay == MaxErrors + 1
HistDates == 1..LastDay

\* the ranges a caller asks for: a long one, one that starts after it ends,
\* one that lies after the last day, the last day alone
HistRanges ==
    {<<1, LastDay>>, <<2, 1>>, <<LastDay + 1, LastDay + 1>>,
     <<LastDay, LastDay>>}

\* what the upstream answers to a single-date request: a failure, a body
\* without the target, a body with the target's rate
HistAnswers == {a \in Answers({USD}, AdapterRates) : a.nested = <<>>}

\* the bodies of a /timeseries mapping: empty, an unparseable date, a value
\* of an unexpected type, and two good entries out of order around a rate
\* that does not parse
TsBodies ==
    {<<>>,
     <<TsEntry(0, "by_target", 1085000)>>,
     <<TsEntry(2, "other", 1085000)>>,
     <<TsEntry(2, "by_target", 1085000), TsEntry(3, "garbage", 0),
       TsEntry(1, "scalar", 920000)>>}

\* what the upstream answers to the /timeseries request
TsAnswers ==
    [kind : {"fail", "list", "other"}, entries : {<<>>}]
    \cup [kind : {"dict"}, entries : TsBodies]

\* the /timeseries answers to a request for start_date..end_date: the
\* upstream quotes no date outside the range it was asked for
TsAnswersFor(start_date, end_date) ==
    {ts \in TsAnswers :
        \A i \in DOMAIN ts.entries :
            \/ ts.entries[i].date = 0
            \/ start_date <= ts.entries[i].date /\ ts.entries[i].date <= end_date}

\* the dates the per-day path of a call may ask the upstream for
Asked(start_date, end_date) ==
    {d \in HistDates : start_date <= d /\ d <= end_date /\ d <= Today}

\* the upstream answers at most MaxAnswered of the single-date requests of
\* one historical call and fails on the others
MaxAnswered == 2

\* the upstream's answers to the single-date requests of one historical
\* call: any answer on any day when /timeseries came back as a list, the
\* same answer on all days for the other /timeseries answers
DayAnswers(ts, start_date, end_date) ==
    IF ts.kind = "list"
    THEN {day \in [Asked(start_date, end_date) -> HistAnswers] :
            Cardinality({d \in DOMAIN day : day[d].kind # "fail"}) <= MaxAnswered}
    ELSE {[d \in Asked(start_date, end_date) |-> a] : a \in HistAnswers}

InitHistorical ==
    /\ today = LastDay - 1
    /\ providers = [n \in ProviderNames |->
                      [priority |-> 1, is_active |-> FALSE,
                       adapter_path |-> MockPath, config |-> EmptyConfig]]
    /\ adaptersCache = {}
    /\ fo = FoIdle
    /\ cbCache = NoCache
    /\ ad = AdNone
    /\ store = {}
    /\ nextId = 1
    /\ pm = PmNew
    /\ task = TaskIdle
    /\ rng = Entropy
    /\ mk = [t \in Threads |-> MkIdle]
    /\ th = [t \in Threads |-> ThIdle]

\* a caller calls CurrencyBeaconAdapter.get_historical_rates
HistCBGetHistoricalRates ==
    /\ ad = AdNone
    /\ \E range \in HistRanges :
       \E ts \in TsAnswersFor(range[1], range[2]) :
         \E day \in DayAnswers(ts, range[1], range[2]) :
           /\ ad' = [adapter |-> "CurrencyBeacon", method |-> "get_historical_rates",
                     source |-> EUR, target |-> usd, date |-> range[1],
                     end_date |-> range[2], ts |-> ts, day |-> day,
                     before |-> cbCache,
                     out |-> CBGetHistoricalRates(EUR, usd, range[1], range[2],
                                                  cbCache, ts, day)]
           /\ cbCache' = ad'.out.cache
    /\ UNCHANGED notAdapter

\* a caller calls MockAdapter.get_historical_rates
HistMockGetHistoricalRates ==
    /\ ad = AdNone
    /\ \E range \in HistRanges, drawn \in DrawnBases :
         ad' = [adapter |-> "Mock Provider", method |-> "get_historical_rates",
                source |-> EUR, target |-> usd, date |-> range[1],
                end_date |-> range[2], ts |-> <<>>, day |-> <<>>,
                before |-> cbCache,
                out |-> MockGetHistoricalRates(EUR, usd, range[1], range[2],
                            [d \in HistDates |-> drawn])]
    /\ UNCHANGED <<cbCache, notAdapter>>

\* a caller calls CurrencyBeaconAdapter.get_exchange_rate for tomorrow
HistCBGetExchangeRate ==
    /\ ad = AdNone
    /\ \E answer \in HistAnswers :
         /\ ad' = [adapter |-> "CurrencyBeacon", method |-> "get_exchange_rate",
                   source |-> EUR, target |-> usd, date |-> Today + 1,
                   out |-> CBGetExchangeRate(EUR, usd, Today + 1, cbCache, answer)]
         /\ cbCache' = ad'.out.cache
    /\ UNCHANGED notAdapter

\* midnight: date.today() moves on; the cache entries younger than their
\* time-to-live (cache_ttl, one hour by default) are still there
DayPasses ==
    /\ ad = AdNone
    /\ today < LastDay
    /\ today' = today + 1
    /\ UNCHANGED <<providers, adaptersCache, fo, cbCache, ad, store, nextId, th, pm, task, rng, mk>>

\* the cache entries outlive their time-to-live and are dropped
HistCacheExpire ==
    /\ ad = AdNone
    /\ cbCache # NoCache
    /\ cbCache' = NoCache
    /\ UNCHANGED <<ad, notAdapter>>

\* the caller has taken the outcome of its call; calls come one at a time
HistReturn ==
    /\ ad # AdNone
    /\ ad' = AdNone
    /\ UNCHANGED <<cbCache, notAdapter>>

NextHistorical ==
    \/ HistReturn
    \/ HistCBGetHistoricalRates
    \/ HistMockGetHistoricalRates
    \/ HistCBGetExchangeRate
    \/ DayPasses
    \/ HistCacheExpire

SpecHistorical == InitHistorical /\ [][NextHistorical]_vars

----------------------------------------------------------------------------
(* SpecRequest: the operations of the remote adapter against every way the *)
(* HTTP layer may respond, one call at a time.                              *)

\* the rates the upstream may quote, zero included
ResponseRates == {1085000, 0}

\* the status codes of the responses raise_for_status rejects
ErrorStatuses == {401, 403, 429, 500}

\* the responses without a usable body
FailedResponses ==
    {Response(how, 0, <<>>, <<>>) : how \in {"timeout", "transport"}}
    \cup {Response("status", status, <<>>, <<>>) : status \in ErrorStatuses}
    \cup {Response(how, 200, <<>>, <<>>) : how \in {"malformed", "error_field"}}

\* the responses with a body: either shape may be empty, and the two may
\* name different currencies
BodyResponses ==
    {Response(how, 200, rates, nested) :
        how \in {"ok", "ok_text"},
        rates \in RatesMaps({USD, GBP}, ResponseRates),
        nested \in RatesMaps({USD, GBP}, ResponseRates)}

Responses == FailedResponses \cup BodyResponses

\* the dates asked of the adapter: yesterday and today
ReqDates == {StartDay - 1, StartDay}

\* the targets asked of the adapter
ReqTargets == {usd, GBP}

\* a caller calls CurrencyBeaconAdapter.get_exchange_rate
ReqGetExchangeRate ==
    /\ ad = AdNone
    /\ \E target \in ReqTargets, date \in ReqDates, response \in Responses :
         LET out == CBGetExchangeRate(EUR, target, date, cbCache,
                                      MakeRequest(response))
         IN  /\ ad' = [adapter |-> "CurrencyBeacon", method |-> "get_exchange_rate",
                       source |-> EUR, target |-> target, date |-> date,
                       response |-> response, before |-> cbCache, out |-> out]
             /\ cbCache' = out.cache
    /\ UNCHANGED notAdapter

\* a caller calls CurrencyBeaconAdapter.get_latest_rate
ReqGetLatestRate ==
    /\ ad = AdNone
    /\ \E target \in ReqTargets, response \in Responses :
         LET out == CBGetLatestRate(EUR, target, cbCache, MakeRequest(response))
         IN  /\ ad' = [adapter |-> "CurrencyBeacon", method |-> "get_latest_rate",
                       source |-> EUR, target |-> target, date |-> Today,
                       response |-> response, before |-> cbCache, out |-> out]
             /\ cbCache' = out.cache
    /\ UNCHANGED notAdapter

\* a caller calls CurrencyBeaconAdapter.get_exchange_rates_for_date
ReqGetExchangeRatesForDate ==
    /\ ad = AdNone
    /\ \E date \in ReqDates, targets \in TargetLists, response \in Responses :
         LET out == CBGetExchangeRatesForDate(EUR, date, targets, cbCache,
                                              MakeRequest(response))
         IN  /\ ad' = [adapter |-> "CurrencyBeacon",
                       method |-> "get_exchange_rates_for_date",
                       source |-> EUR, target |-> <<>>, date |-> date,
                       response |-> response, before |-> cbCache, out |-> out]
             /\ cbCache' = out.cache
    /\ UNCHANGED notAdapter

\* what get_historical_rates makes of the response to /timeseries: a
\* failed or unreadable one starts the per-day path, as a body without
\* usable entries does
TsOf(response) ==
    [kind |-> IF MakeRequest(response).kind \in {"fail", "raw"}
              THEN "fail" ELSE "list",
     entries |-> <<>>]

\* the responses to the requests of one historical lookup: the failures,
\* and one body with the target's rate
HistResponses ==
    FailedResponses \cup {Response("ok", 200, USD :> 1085000, <<>>)}

\* the ranges asked of the historical lookup
ReqRanges == {<<StartDay - 1, StartDay>>, <<StartDay, StartDay - 1>>}

\* a caller calls CurrencyBeaconAdapter.get_historical_rates; every
\* single-date request of the call gets the same response
ReqGetHistoricalRates ==
    /\ ad = AdNone
    /\ \E range \in ReqRanges, first \in HistResponses, each \in HistResponses :
         LET out == CBGetHistoricalRates(EUR, usd, range[1], range[2], cbCache,
                        TsOf(first), [d \in ReqDates |-> MakeRequest(each)])
         IN  /\ ad' = [adapter |-> "CurrencyBeacon",
                       method |-> "get_historical_rates",
                       source |-> EUR, target |-> usd, date |-> range[1],
                       response |-> first, before |-> cbCache, out |-> out]
             /\ cbCache' = out.cache
    /\ UNCHANGED notAdapter

NextRequest ==
    \/ HistReturn
    \/ HistCacheExpire
    \/ ReqGetExchangeRate
    \/ ReqGetLatestRate
    \/ ReqGetExchangeRatesForDate
    \/ ReqGetHistoricalRates

SpecRequest == InitAdapter /\ [][NextRequest]_vars

----------------------------------------------------------------------------
(* SpecInstances: get_adapter and clear_cache on one ProviderManager, with *)
(* configs that are None, empty, and the same dict written in two orders.  *)

\* a ProviderManager constructs at most MaxInstances adapter objects
MaxInstances == 3

\* the dict {'a': 1, 'b': 2} and the equal dict {'b': 2, 'a': 1}
ConfigAB == Config(<<<<(<<97>>), (<<49>>)>>, <<(<<98>>), (<<50>>)>>>>)
ConfigBA == Config(<<<<(<<98>>), (<<50>>)>>, <<(<<97>>), (<<49>>)>>>>)

\* the configs get_adapter is called with
InstConfigs == {NoneConfig, EmptyConfig, ConfigAB, ConfigBA}

\* mutant: get_adapter does not look into the cache
GetAdapterUncached(adapter_path, config, cache, made) ==
    LET cache_key == CacheKey(adapter_path, config)
    IN  IF ~Importable(adapter_path)
        THEN [exc |-> Exc("ImportError", <<"Cannot import adapter class", adapter_path>>),
              adapter |-> 0, cache |-> cache, made |-> made]
        ELSE [exc |-> NoExc, adapter |-> made + 1,
              cache |-> [k \in DOMAIN cache \cup {cache_key} |->
                            IF k = cache_key THEN made + 1 ELSE cache[k]],
              made |-> made + 1]

\* ProviderManager.get_adapter: the exception or the adapter object it
\* returns, the cache and the number of objects made afterwards; a new
\* object gets the next number
GetAdapter(adapter_path, config, cache, made) ==
    LET cache_key == CacheKey(adapter_path, config)
    IN  IF cache_key \in DOMAIN cache
        THEN [exc |-> NoExc, adapter |-> cache[cache_key], cache |-> cache,
              made |-> made]
        ELSE IF ~Importable(adapter_path)
        THEN [exc |-> Exc("ImportError", <<"Cannot import adapter class", adapter_path>>),
              adapter |-> 0, cache |-> cache, made |-> made]
        ELSE [exc |-> NoExc, adapter |-> made + 1,
              cache |-> [k \in DOMAIN cache \cup {cache_key} |->
                            IF k = cache_key THEN made + 1 ELSE cache[k]],
              made |-> made + 1]

\* one call of get_adapter as its caller sees it
GotAdapter(adapter_path, config, adapter) ==
    [adapter_path |-> adapter_path, config |-> config, adapter |-> adapter]

\* a caller calls get_adapter
InstGetAdapter ==
    /\ \E adapter_path \in AdapterPaths, config \in InstConfigs :
         LET out == GetAdapter(adapter_path, config, pm.cache, pm.made)
         IN  /\ out.made <= MaxInstances
             /\ pm' = [pm EXCEPT
                         !.cache = out.cache,
                         !.made = out.made,
                         !.returned =
                             IF out.exc = NoExc
                             THEN @ \cup {GotAdapter(adapter_path, config, out.adapter)}
                             ELSE @]
    /\ UNCHANGED <<today, providers, adaptersCache, fo, cbCache, ad, store, nextId, th,
                   task, rng, mk>>

\* a caller calls clear_cache
InstClearCache ==
    /\ pm' = [pm EXCEPT !.cache = <<>>, !.returned = {},
                        !.old = @ \cup pm.returned]
    /\ UNCHANGED <<today, providers, adaptersCache, fo, cbCache, ad, store, nextId, th,
                   task, rng, mk>>

NextInstances == InstGetAdapter \/ InstClearCache

SpecInstances == InitAdapter /\ [][NextInstances]_vars

----------------------------------------------------------------------------
(* SpecTask: load_historical_rates_task (tasks/historical_data.py), one    *)
(* iteration of its while loop per step; each batch succeeds or fails.     *)

\* date.min and date.max: the dates of the model lie between them, two
\* days from either end
DateMin == 0 - 1
DateMax == MaxDate + 2

\* the ranges of the log: no run with batch_size >= 1 makes more calls
MaxLog == MaxDate

\* the batch sizes a caller passes: negative, zero, one day, two days, the
\* whole range, and one larger than the dates that are left
BatchSizes == {0 - 1, 0, 1, 2, MaxDate, DateMax + 1}

\* current_end = min(current_start + timedelta(days=batch_size - 1), end):
\* the sum is computed first and raises OverflowError outside
\* date.min..date.max
CurrentEnd(current_start, batch_size, end) ==
    IF current_start + (batch_size - 1) \notin DateMin..DateMax
    THEN [overflow |-> TRUE, date |-> 0]
    ELSE [overflow |-> FALSE,
          date |-> IF current_start + (batch_size - 1) < end
                   THEN current_start + (batch_size - 1) ELSE end]

\* a worker starts load_historical_rates_task
TaskCall ==
    /\ task.pc = "idle"
    /\ \E start \in Dates, end \in Dates, batch_size \in BatchSizes :
         task' = [TaskIdle EXCEPT !.pc = "loop", !.start = start, !.end = end,
                                  !.batch_size = batch_size,
                                  !.current_start = start]
    /\ UNCHANGED <<today, providers, adaptersCache, fo, cbCache, ad, store, nextId, th,
                   pm, rng, mk>>

\* one iteration of the while loop: the batch's range, the call of
\* load_historical_rates (which returns or raises), the next start
TaskBatch ==
    /\ task.pc = "loop"
    /\ task.current_start <= task.end
    /\ LET current_end == CurrentEnd(task.current_start, task.batch_size, task.end)
       IN  IF current_end.overflow
           THEN task' = [task EXCEPT !.pc = "raised"]
           ELSE \E ok \in BOOLEAN :
                  task' = [task EXCEPT
                      !.ranges = IF Len(@) < MaxLog
                                 THEN Append(@, <<task.current_start, current_end.date>>)
                                 ELSE @,
                      !.errors = @ \/ ~ok,
                      !.odd = ~@,
                      !.current_start = current_end.date + 1]
    /\ UNCHANGED <<today, providers, adaptersCache, fo, cbCache, ad, store, nextId, th,
                   pm, rng, mk>>

\* the loop condition fails: the task returns its result
TaskFinish ==
    /\ task.pc = "loop"
    /\ task.current_start > task.end
    /\ task' = [task EXCEPT !.pc = "done"]
    /\ UNCHANGED <<today, providers, adaptersCache, fo, cbCache, ad, store, nextId, th,
                   pm, rng, mk>>

\* the worker is free for the next task
TaskOver ==
    /\ task.pc \in {"done", "raised"}
    /\ task' = TaskIdle
    /\ UNCHANGED <<today, providers, adaptersCache, fo, cbCache, ad, store, nextId, th,
                   pm, rng, mk>>

NextTask == TaskCall \/ TaskBatch \/ TaskFinish \/ TaskOver

\* the worker keeps running the task it has started
SpecTask ==
    InitAdapter /\ [][NextTask]_vars /\ WF_vars(TaskBatch) /\ WF_vars(TaskFinish)

----------------------------------------------------------------------------
(* SpecMockThreads: two threads in MockAdapter.get_exchange_rate on the    *)
(* generator of the `random` module, which the process shares.  A call to  *)
(* random.seed or random.uniform runs under the interpreter lock; between  *)
(* two calls another thread may run.                                       *)

\* what random() may return on a generator seeded from the system's
\* entropy (in units of 10^-3)
EntropyDraws == {0, 500, 999}

\* random() on a generator seeded with `seed` after `draws` earlier draws:
\* the first draw is SeededRandom(seed), each later one another value the
\* seed fixes
SeededStream(seed, draws) == SeededRandom(seed * (draws + 1))

\* get_exchange_rate up to random.seed(date_factor): the base rate of the
\* pair is taken from the table
MkCall(t) ==
    /\ mk[t].pc = "idle"
    /\ \E valuation_date \in Dates :
         mk' = [mk EXCEPT ![t] =
                  [MkIdle EXCEPT !.pc = "seed", !.date = valuation_date,
                                 !.base_rate = GetBaseRate(EUR, usd, 0)[1]]]
    /\ UNCHANGED <<rng, today, providers, adaptersCache, fo, cbCache, ad, store,
                   nextId, th, pm, task>>

\* random.seed(date_factor)
MkSeed(t) ==
    /\ mk[t].pc = "seed"
    /\ rng' = [seeded |-> TRUE, seed |-> DateFactor(mk[t].date), draws |-> 0]
    /\ mk' = [mk EXCEPT ![t].pc = "draw"]
    /\ UNCHANGED <<today, providers, adaptersCache, fo, cbCache, ad, store,
                   nextId, th, pm, task>>

\* random.uniform(-self.volatility, self.volatility)
MkDraw(t) ==
    /\ mk[t].pc = "draw"
    /\ \E u \in (IF rng.seeded THEN {SeededStream(rng.seed, rng.draws)}
                  ELSE EntropyDraws) :
         mk' = [mk EXCEPT ![t] = [@ EXCEPT !.pc = "reseed", !.u = u]]
    /\ rng' = IF rng.seeded THEN [rng EXCEPT !.draws = @ + 1] ELSE rng
    /\ UNCHANGED <<today, providers, adaptersCache, fo, cbCache, ad, store,
                   nextId, th, pm, task>>

\* varied_rate = base_rate * (1 + variation); random.seed(); return
MkReseed(t) ==
    /\ mk[t].pc = "reseed"
    /\ rng' = Entropy
    /\ mk' = [mk EXCEPT ![t] =
               [@ EXCEPT !.pc = "done", !.rate = Varied(mk[t].base_rate, mk[t].u)]]
    /\ UNCHANGED <<today, providers, adaptersCache, fo, cbCache, ad, store,
                   nextId, th, pm, task>>

\* the caller has taken the quote
MkReturn(t) ==
    /\ mk[t].pc = "done"
    /\ mk' = [mk EXCEPT ![t] = MkIdle]
    /\ UNCHANGED <<rng, today, providers, adaptersCache, fo, cbCache, ad, store,
                   nextId, th, pm, task>>

NextMockThreads ==
    \E t \in Threads :
        \/ MkCall(t)
        \/ MkSeed(t)
        \/ MkDraw(t)
        \/ MkReseed(t)
        \/ MkReturn(t)

SpecMockThreads == InitAdapter /\ [][NextMockThreads]_vars

----------------------------------------------------------------------------
(* Claims about execute_with_failover, checked under SpecFailover.  The     *)
(* failover order is stated here from the table itself, by rank, not by    *)
(* the manager's own query.                                                *)

ActiveNames == {n \in ProviderNames : providers[n].is_active}

\* the number of active providers ordered before n: lower priority first,
\* then the lesser name
FoRank(n) ==
    Cardinality({m \in ActiveNames :
        \/ providers[m].priority < providers[n].priority
        \/ /\ providers[m].priority = providers[n].priority
           /\ StrLess(m, n)})

\* the active providers in failover order
FoOrder ==
    [i \in 1..Cardinality(ActiveNames) |->
        CHOOSE n \in ActiveNames : FoRank(n) = i - 1]

\* what this call's operation does on provider n
FoFails(n) ==
    /\ Importable(providers[n].adapter_path)
    /\ fo.op[n] \in {"ProviderUnavailableError", "RateNotFoundError"}

FoSucceeds(n) ==
    /\ Importable(providers[n].adapter_path)
    /\ fo.op[n] = "ok"

FoFinished == fo.pc \in {"returned", "raised"}

\* C1: when the call is over and provider k (in failover order) is the first
\* whose operation succeeds, every provider before it having failed with
\* ProviderUnavailable or RateNotFound, the call has returned, not raised,
\* and its value is provider k's result.
C1_FirstSuccessReturned ==
    FoFinished =>
        \A k \in 1..Len(FoOrder) :
            (/\ FoSucceeds(FoOrder[k])
             /\ \A j \in 1..(k - 1) : FoFails(FoOrder[j]))
            => /\ fo.pc = "returned"
               /\ fo.result = ResultOf(FoOrder[k])
               /\ fo.error = NoExc

\* C1 witness: P1 (priority 1) failed, P2 (priority 2) succeeded, and the
\* call returned P2's result.
C1_Witness ==
    /\ fo.pc = "returned"
    /\ providers[P1].is_active /\ providers[P1].priority = 1
    /\ providers[P2].is_active /\ providers[P2].priority = 2
    /\ ~providers[P3].is_active
    /\ fo.op[P1] = "RateNotFoundError"
    /\ fo.invoked = <<P1, P2>>
    /\ fo.result = ResultOf(P2)

\* C2: in every state of a call the providers the operation was invoked on
\* are, in order, the first ones of the active providers sorted by priority
\* then name: all active, none twice, and only the last one may have
\* succeeded (nothing is invoked after a success, and nothing once the call
\* is over).
C2_InvokedIsPrefix ==
    /\ Len(fo.invoked) <= Len(FoOrder)
    /\ \A i \in 1..Len(fo.invoked) :
         /\ providers[fo.invoked[i]].is_active
         /\ fo.invoked[i] = FoOrder[i]
         /\ \A j \in 1..Len(fo.invoked) : i # j => fo.invoked[i] # fo.invoked[j]
         /\ i < Len(fo.invoked) => fo.op[fo.invoked[i]] # "ok"
    /\ fo.pc = "loop" => \A i \in 1..Len(fo.invoked) : fo.op[fo.invoked[i]] # "ok"

\* C2 witness: P3 has the best priority but is inactive; P1 and P2 share a
\* priority, so the name decides; both were invoked, in that order.
C2_Witness ==
    /\ FoFinished
    /\ ~providers[P3].is_active /\ providers[P3].priority = 1
    /\ providers[P1].is_active /\ providers[P1].priority = 2
    /\ providers[P2].is_active /\ providers[P2].priority = 2
    /\ fo.invoked = <<P1, P2>>

\* C3: when the call is over and there is no active provider, or every
\* active provider failed with ProviderUnavailable or RateNotFound, the call
\* has raised the aggregate ExchangeRateAdapterError; with providers tried
\* its message ends with the message of the last provider in failover
\* order, and with no active provider nothing was instantiated or invoked.
C3_AllFailedRaises ==
    (FoFinished /\ \A n \in ActiveNames : FoFails(n)) =>
        /\ fo.pc = "raised"
        /\ fo.result = NoResult
        /\ fo.error.kind = "ExchangeRateAdapterError"
        /\ ActiveNames = {} =>
             /\ fo.error.msg = <<"No active exchange rate providers configured">>
             /\ fo.invoked = <<>>
             /\ fo.instantiated = <<>>
             /\ adaptersCache = fo.cache0
        /\ ActiveNames # {} =>
             LET last == FoOrder[Len(FoOrder)]
             IN  /\ fo.invoked = FoOrder
                 /\ fo.error.msg =
                       <<"All providers failed. Last error: ">>
                          \o MessageOf(fo.op[last], last)

\* C3 witness: two providers were tried, both failed, the call raised.
C3_Witness ==
    /\ fo.pc = "raised"
    /\ Len(fo.invoked) = 2
    /\ fo.op[fo.invoked[1]] = "ProviderUnavailableError"
    /\ fo.op[fo.invoked[2]] = "RateNotFoundError"
    /\ fo.error.kind = "ExchangeRateAdapterError"

\* the provider's adapter cannot be imported, or the operation raises
\* ValueError (start_date after end_date)
FoPropagates(n) ==
    \/ ~Importable(providers[n].adapter_path)
    \/ fo.op[n] = "ValueError"

\* C4: when the call is over and provider k is the first, in failover order,
\* whose adapter cannot be imported or whose operation raises ValueError
\* (the ones before having failed with an adapter error), the call has
\* raised that very error (ImportError, ValueError), not the aggregate
\* error, and no provider after k was invoked.
C4_ConfigAndRangeErrorsPropagate ==
    FoFinished =>
        \A k \in 1..Len(FoOrder) :
            (/\ FoPropagates(FoOrder[k])
             /\ \A j \in 1..(k - 1) : FoFails(FoOrder[j]))
            => /\ fo.pc = "raised"
               /\ fo.error.kind =
                     IF Importable(providers[FoOrder[k]].adapter_path)
                     THEN "ValueError" ELSE "ImportError"
               /\ Importable(providers[FoOrder[k]].adapter_path) =>
                     fo.error.msg = MessageOf("ValueError", FoOrder[k])
               /\ Len(fo.invoked) <= k
               /\ \A j \in (k + 1)..Len(FoOrder) :
                     \A i \in 1..Len(fo.invoked) : fo.invoked[i] # FoOrder[j]

\* C4 witness: P1 failed, P2's adapter path cannot be imported, P3 would
\* have succeeded; the call raised ImportError after invoking P1 alone.
C4_Witness ==
    /\ fo.pc = "raised"
    /\ fo.error.kind = "ImportError"
    /\ FoOrder = <<P1, P2, P3>>
    /\ fo.op[P1] = "ProviderUnavailableError"
    /\ providers[P2].adapter_path = BadPath
    /\ FoSucceeds(P3)
    /\ fo.invoked = <<P1>>

----------------------------------------------------------------------------
(* Claims about the adapters, checked under SpecAdapter *)

\* two codes spell the same letters, whatever the case of each letter
SameLetters(a, b) ==
    /\ Len(a) = Len(b)
    /\ \A i \in 1..Len(a) : a[i] = b[i] \/ a[i] = b[i] + 32 \/ b[i] = a[i] + 32

\* the capital letters 'A'..'Z'
IsUpperCase(a) == \A i \in 1..Len(a) : a[i] >= 65 /\ a[i] <= 90

\* C9: whenever either adapter's get_exchange_rate was called with a source
\* and a target that spell the same code (in any letter case), for any
\* date, it returned rate exactly 1 under the upper-case codes and the
\* requested date, having sent no upstream request, read or written no
\* cache key and drawn no random number.
C9_SameCurrencyIsOne ==
    (ad.method = "get_exchange_rate" /\ SameLetters(ad.source, ad.target)) =>
        /\ ad.out.exc = NoExc
        /\ ad.out.result.rate_value = 1000000
        /\ IsUpperCase(ad.out.result.source_currency)
        /\ IsUpperCase(ad.out.result.exchanged_currency)
        /\ SameLetters(ad.out.result.source_currency, ad.source)
        /\ ad.out.result.exchanged_currency = ad.out.result.source_currency
        /\ ad.out.result.valuation_date = ad.date
        /\ ad.out.requests = <<>>
        /\ ad.out.cache_gets = <<>>
        /\ ad.out.cache_sets = <<>>
        /\ ad.out.draws = 0

\* C9 witness: the remote adapter was asked for "eur" -> "eUr" on a date
\* after today, with a cache that holds entries, and answered 1.
C9_Witness ==
    /\ ad.adapter = "CurrencyBeacon"
    /\ ad.source = eur /\ ad.target = eUr /\ ad.date > Today
    /\ cbCache # NoCache
    /\ ad.out.result.rate_value = One
    /\ ad.out.result.source_currency = EUR

----------------------------------------------------------------------------
(* Claims about get_exchange_rate_data and the store (Spec) *)

\* the store's records keyed (source, target, date)
Stored(rows, source, target, date) ==
    {r \in rows : /\ r.source_currency = source
                  /\ r.exchanged_currency = target
                  /\ r.valuation_date = date}

\* thread t has returned from a resolve call without an exception
Resolved(t) ==
    th[t].pc = "done" /\ th[t].op = "resolve" /\ th[t].exc = NoExc

\* the record the resolve call of t returned has the key t asked for
ReturnedRequestedKey(t) ==
    /\ th[t].ret[1].source_currency = th[t].source
    /\ th[t].ret[1].exchanged_currency = th[t].target
    /\ th[t].ret[1].valuation_date = th[t].date

\* C5: a resolve call that finds a record for its (source, target, date) in
\* the store returns that record in the same step, invokes no provider
\* adapter and leaves the store, the adapter cache and the process cache as
\* they were.
C5_StoreHitServedFromStore ==
    [][\A t \in Threads :
          (/\ th[t].pc = "idle" /\ th'[t].pc # "idle" /\ th'[t].op = "resolve"
           /\ Stored(store, th'[t].source, th'[t].target, th'[t].date) # {})
          => /\ th'[t].pc = "done"
             /\ th'[t].exc = NoExc
             /\ th'[t].ret \in {<<r>> : r \in Stored(store, th'[t].source,
                                                    th'[t].target, th'[t].date)}
             /\ th'[t].invoked = <<>>
             /\ store' = store
             /\ adaptersCache' = adaptersCache
             /\ cbCache' = cbCache]_vars

\* C5 witness: a resolve call was served from the store, which another
\* call had filled, for a date before today
C5_Witness ==
    \E t \in Threads :
        /\ Resolved(t) /\ th[t].invoked = <<>> /\ th[t].ret # <<>>
        /\ th[t].date < Today
        /\ th[t].ret[1] \in store

\* C6: a resolve call that returned after a store miss returned a record
\* keyed by exactly the (source, target, date) it was asked for.
C6_ResolvedRecordHasRequestedKey ==
    \A t \in Threads :
        (Resolved(t) /\ th[t].invoked # <<>>) => ReturnedRequestedKey(t)

\* C7: the store never holds two records of one (source, target,
\* valuation_date).
C7_OneRecordPerKey ==
    \A r1 \in store, r2 \in store :
        (/\ r1.source_currency = r2.source_currency
         /\ r1.exchanged_currency = r2.exchanged_currency
         /\ r1.valuation_date = r2.valuation_date) => r1 = r2

\* C7 witness: two concurrent resolve calls of one key both missed the
\* store, both fetched and both wrote, and the store holds one record
C7_Witness ==
    /\ \A t \in Threads :
          /\ Resolved(t) /\ th[t].invoked # <<>> /\ th[t].after = {}
          /\ th[t].ret[1].valuation_date = th[1].ret[1].valuation_date
          /\ th[t].ret[1].exchanged_currency = th[1].ret[1].exchanged_currency
    /\ Cardinality(store) = 1
    /\ th[1].ret[1].rate_value # th[2].ret[1].rate_value

\* t2 resolved the key t1 had resolved and stored, after t1 had returned
ResolvedAgain(t1, t2) ==
    /\ t1 # t2 /\ Resolved(t1) /\ Resolved(t2)
    /\ t1 \in th[t2].after
    /\ th[t1].invoked # <<>> /\ ReturnedRequestedKey(t1)
    /\ th[t2].source = th[t1].source /\ th[t2].target = th[t1].target
    /\ th[t2].date = th[t1].date

C10_SameCurrencyResolvesToOne ==
    \A t \in Threads :
        (th[t].pc = "done" /\ th[t].op = "resolve" /\ th[t].source = th[t].target)
        => /\ th[t].exc = NoExc
           /\ th[t].ret[1].rate_value = One
           /\ th[t].invoked = <<>>

----------------------------------------------------------------------------
(* Claims about a named provider (SpecNamed) *)

\* the call of t named a provider, and no active row has that name
NamesNoActiveProvider(t) ==
    /\ th[t].pc = "done" /\ th[t].op \in {"resolve", "load"}
    /\ th[t].provider # NoName
    /\ \A n \in ProviderNames :
          Upper(n) = Upper(th[t].provider) => ~providers[n].is_active

\* C11 as stated: a resolve or load_historical call whose provider_name
\* names no active provider fails and invokes no provider adapter.
C11_UnknownNameFails ==
    \A t \in Threads :
        NamesNoActiveProvider(t) => th[t].exc # NoExc /\ th[t].invoked = <<>>

\* C11 amended: a load_historical call, or a resolve call whose key is not
\* in the store, fails when its provider_name names no active provider; a
\* resolve call whose key is in the store returns the stored record; in
\* every case no provider adapter is invoked and the store is not written.
C11_UnknownNameInvokesNothing ==
    \A t \in Threads :
        NamesNoActiveProvider(t)
        => /\ th[t].invoked = <<>>
           /\ \/ th[t].exc # NoExc /\ th[t].ret = <<>>
              \/ /\ th[t].op = "resolve" /\ th[t].exc = NoExc
                 /\ th[t].ret # <<>> /\ ReturnedRequestedKey(t)
                 /\ th[t].found = FALSE /\ th[t].results = <<>>

\* C11 witness: a call named an inactive provider while another provider
\* was active, and failed
C11_Witness ==
    \E t \in Threads :
        /\ NamesNoActiveProvider(t) /\ th[t].exc # NoExc
        /\ th[t].provider = p2
        /\ providers[P1].is_active

----------------------------------------------------------------------------
(* Claims about convert_amount (SpecConvert) *)

\* convert_amount has returned a dict to thread t
Converted(t) == th[t].pc = "converted" /\ th[t].exc = NoExc

\* the distance, in units of 10^-8, of `converted` hundredths from the
\* product of `amount` hundredths and `rate` millionths
OffProduct(converted, amount, rate) ==
    IF converted * One >= amount * rate
    THEN (converted * One) - (amount * rate)
    ELSE (amount * rate) - (converted * One)

\* C12: convert_amount with source equal to target returns the amount
\* unchanged at rate exactly 1, having read no store record and invoked no
\* provider; otherwise it returns the rate of the record resolve returned
\* and the hundredth nearest to amount * rate (the even one of two equally
\* near); amount 100.00 at rate 1.085000 gives 108.50.
C12_ConvertedIsRoundedProduct ==
    \A t \in Threads :
        Converted(t) =>
            LET c == th[t].conv[1]
            IN  IF th[t].source = th[t].target
                THEN /\ c.converted_amount = th[t].amount
                     /\ c.rate_value = One
                     /\ th[t].ret = <<>> /\ th[t].invoked = <<>>
                ELSE /\ c.rate_value = th[t].ret[1].rate_value
                     /\ (th[t].amount = 10000 /\ c.rate_value = 1085000)
                           => c.converted_amount = 10850
                     /\ th[t].amount <= 1000
                           => /\ OffProduct(c.converted_amount, th[t].amount,
                                            c.rate_value) <= One \div 2
                              /\ OffProduct(c.converted_amount, th[t].amount,
                                            c.rate_value) = One \div 2
                                    => c.converted_amount % 2 = 0

\* C12 witness: amount 100.00 was converted at the stored rate 1.085000
\* without a provider call, and 1.00 at that rate gave the tie 1.085
C12_Witness ==
    \E t \in Threads, u \in Threads :
        /\ Converted(t) /\ th[t].amount = 10000 /\ th[t].invoked = <<>>
        /\ th[t].conv[1].rate_value = 1085000
        /\ th[t].conv[1].converted_amount = 10850
        /\ Converted(u) /\ th[u].amount = 100
        /\ th[u].conv[1].rate_value = 1085000
        /\ th[u].conv[1].converted_amount = 108

----------------------------------------------------------------------------
(* Claims about load_historical_rates (Spec) *)

\* thread t has returned from a load_historical_rates call
Loaded(t) == th[t].pc = "done" /\ th[t].op = "load" /\ th[t].exc = NoExc

\* t2 loaded the range t1 had loaded, after t1 had returned, and the
\* provider returned the same quotes to both
LoadedAgain(t1, t2) ==
    /\ t1 # t2 /\ Loaded(t1) /\ Loaded(t2)
    /\ t1 \in th[t2].after
    /\ th[t2].source = th[t1].source /\ th[t2].target = th[t1].target
    /\ th[t2].date = th[t1].date /\ th[t2].end_date = th[t1].end_date
    /\ th[t2].results = th[t1].results

\* C13: after a second identical load_historical call to which the
\* provider returned the same quotes, the store is the store the first call
\* left: the same records, one per quote, with the same rates.
C13_LoadIsIdempotent ==
    \A t1 \in Threads, t2 \in Threads :
        LoadedAgain(t1, t2)
        => /\ store = {th[t1].ret[i] : i \in 1..Len(th[t1].ret)}
           /\ th[t2].ret = th[t1].ret
           /\ \A i \in 1..Len(th[t1].results) :
                 \E r \in store :
                    /\ Stored(store, th[t1].results[i].source_currency,
                              th[t1].results[i].exchanged_currency,
                              th[t1].results[i].valuation_date) = {r}
                    /\ r.rate_value = th[t1].results[i].rate_value

\* C13 witness: three distinct daily quotes were loaded twice and the
\* store holds three records
C13_Witness ==
    \E t1 \in Threads, t2 \in Threads :
        /\ LoadedAgain(t1, t2)
        /\ Len(th[t1].results) = 3
        /\ Cardinality({th[t1].results[i].rate_value : i \in 1..3}) = 3
        /\ Cardinality(store) = 3

----------------------------------------------------------------------------
(* Claims about _bulk_save_rates (SpecLoad) *)

\* C14: the step in which _bulk_save_rates ends either raises and leaves
\* the store as it was before the call, with no quote of the call written,
\* or returns and leaves in the store one record for every returned quote
\* with known currency codes, carrying that quote's rate, and no other new
\* record.
C14_BulkSaveAllOrNothing ==
    [][\A t \in Threads :
          (th[t].pc = "bulk" /\ th'[t].pc = "done")
          => IF th'[t].exc # NoExc
             THEN store' = store /\ th'[t].ret = <<>>
             ELSE /\ \A i \in 1..Len(th[t].results) :
                        LET q == th[t].results[i]
                        IN  IF q.source_currency \in KnownCurrencies
                               /\ q.exchanged_currency \in KnownCurrencies
                            THEN \E r \in store' :
                                    /\ Stored(store', q.source_currency,
                                              q.exchanged_currency,
                                              q.valuation_date) = {r}
                                    /\ r.rate_value = q.rate_value
                            ELSE Stored(store', q.source_currency,
                                        q.exchanged_currency,
                                        q.valuation_date) = {}
                  /\ \A r \in store' \ store :
                        \E i \in 1..Len(th[t].results) :
                           /\ th[t].results[i].valuation_date = r.valuation_date
                           /\ th[t].results[i].rate_value = r.rate_value]_vars

\* C14 witness: a bulk save of at least two quotes failed, over a store an
\* earlier call had filled with another rate
C14_Witness ==
    \E t \in Threads, u \in Threads :
        /\ th[t].pc = "done" /\ th[t].op = "load"
        /\ th[t].exc = Exc("DatabaseError", <<>>)
        /\ Len(th[t].results) >= 2
        /\ store # {}
        /\ \E r \in store : r.rate_value # th[t].results[1].rate_value
        /\ u # t /\ Loaded(u) /\ u \in th[t].after

----------------------------------------------------------------------------
(* Claims about the remote adapter's single-date lookup (SpecAdapter) *)

\* the last adapter call was CurrencyBeaconAdapter.get_exchange_rate and it
\* sent a request upstream
CBLookupReachedUpstream ==
    /\ ad.adapter = "CurrencyBeacon" /\ ad.method = "get_exchange_rate"
    /\ ad.out.requests # <<>>

\* C15: a single-date lookup that reaches the upstream sends one request:
\* to /latest when the requested date is today or later, to /historical
\* with exactly the requested date when it is before today; no date after
\* today is sent to /historical.
C15_LatestFromTodayOn ==
    CBLookupReachedUpstream
    => /\ Len(ad.out.requests) = 1
       /\ ad.out.requests[1].base = Upper(ad.source)
       /\ IF ad.date >= Today
          THEN ad.out.requests[1].endpoint = "/latest"
          ELSE /\ ad.out.requests[1].endpoint = "/historical"
               /\ ad.out.requests[1].date = ad.date
       /\ ad.out.requests[1].endpoint = "/historical"
             => ad.out.requests[1].date < Today

\* C15 witness: a lookup for a date after today reached the upstream
C15_Witness ==
    CBLookupReachedUpstream /\ ad.date > Today /\ ad.out.exc = NoExc

----------------------------------------------------------------------------
(* Claims about the remote adapter's historical lookup (SpecHistorical) *)

\* the call under observation is a historical lookup on the remote adapter
\* that went as far as the /timeseries request
CBHistoricalAsked ==
    /\ ad.adapter = "CurrencyBeacon"
    /\ ad.method = "get_historical_rates"
    /\ ad.date <= ad.end_date
    /\ ad.date <= Today

\* the quotes of a list are in strictly ascending order of valuation date
StrictlyAscending(results) ==
    \A i, j \in DOMAIN results :
        i < j => results[i].valuation_date < results[j].valuation_date

\* C16: when /timeseries answers with a list, get_historical_rates runs
\* the per-day path (every further request is a single-date request) and
\* returns quotes sorted ascending by valuation date, no two of them with
\* the same valuation date, whatever the cache holds.
C16_ListShapedSortedNoDuplicates ==
    (CBHistoricalAsked /\ ad.ts.kind = "list") =>
        /\ ad.out.exc = NoExc
        /\ \A i \in 2..Len(ad.out.requests) :
               ad.out.requests[i].endpoint \in {"/latest", "/historical"}
        /\ StrictlyAscending(ad.out.result)

\* what the per-day path meets on date d of the observed call: the cache
\* holds the date's key ("hit"), the upstream fails ("error"), answers
\* without the target ("notfound") or with its rate ("ok")
Met(d) ==
    IF GetCacheKey(Upper(ad.source), Upper(ad.target), d) \in DOMAIN ad.before
    THEN "hit"
    ELSE IF ad.day[d].kind = "fail" THEN "error"
    ELSE IF Upper(ad.target) \in DOMAIN ad.day[d].rates THEN "ok"
    ELSE "notfound"

\* the dates from start to min(end, today) of the observed call
InRange == {d \in HistDates : ad.date <= d /\ d <= ad.end_date /\ d <= Today}

\* d is the fifth of five consecutive dates of the range that failed
FifthFailure(d) ==
    /\ d - 4 >= ad.date
    /\ \A k \in (d - 4)..d : Met(k) = "error"

\* the dates the loop is to visit: all of the range, or those up to the
\* first date that completes five consecutive failures
ToVisit ==
    {d \in InRange : \A k \in InRange : FifthFailure(k) => d <= k}

\* the dates the loop visited: those whose cache key it read
Visited == {ad.out.cache_gets[i][3] : i \in DOMAIN ad.out.cache_gets}

\* the observed call went through the per-day path from an unparsed
\* /timeseries answer
PerDayPath == CBHistoricalAsked /\ ad.ts.kind # "dict"

Parses(e) == e.date # 0 /\ e.shape \in {"by_target", "scalar"}

\* the entries of the observed call's /timeseries mapping that parse
ParsedEntries == SelectSeq(ad.ts.entries, Parses)

\* C18: get_historical_rates never propagates the failure of /timeseries.
\* It enters the per-day path (the loop reads the cache for the start date)
\* when /timeseries failed, answered a list, or answered a mapping none of
\* whose entries parsed; when an entry parsed it sends no single-date
\* request, reads no cache key, and returns exactly the parsed entries,
\* sorted ascending by date.
C18_FallbackOrParsedEntries ==
    CBHistoricalAsked =>
        /\ ad.out.exc = NoExc
        /\ ad.out.requests[1].endpoint = "/timeseries"
        /\ (ad.ts.kind \in {"fail", "list"}
            \/ (ad.ts.kind = "dict" /\ ParsedEntries = <<>>))
           => /\ ad.date \in Visited
              /\ Visited = ToVisit
        /\ (ad.ts.kind = "dict" /\ ParsedEntries # <<>>)
           => /\ Len(ad.out.requests) = 1
              /\ ad.out.cache_gets = <<>>
              /\ Len(ad.out.result) = Len(ParsedEntries)
              /\ \A i \in DOMAIN ParsedEntries :
                     \E j \in DOMAIN ad.out.result :
                         /\ ad.out.result[j].valuation_date = ParsedEntries[i].date
                         /\ ad.out.result[j].rate_value = ParsedEntries[i].rate
              /\ \A i, j \in DOMAIN ad.out.result :
                     i < j => ad.out.result[i].valuation_date
                                  <= ad.out.result[j].valuation_date

\* C18 witness: /timeseries failed and the per-day path returned a quote
C18_Witness ==
    /\ CBHistoricalAsked
    /\ ad.ts.kind = "fail"
    /\ ad.out.result # <<>>
    /\ Len(ad.out.requests) > 1

----------------------------------------------------------------------------
(* Claims about get_historical_rates of every adapter (SpecHistorical) *)

\* C19: on either adapter, get_historical_rates with start_date after
\* end_date fails with an input error (ValueError): it returns no list and
\* sends no request to the upstream.
C19_StartAfterEndIsInputError ==
    (ad.method = "get_historical_rates" /\ ad.date > ad.end_date) =>
        /\ ad.out.exc.kind = "ValueError"
        /\ ad.out.result = <<>>
        /\ ad.out.requests = <<>>

----------------------------------------------------------------------------
(* Claims about get_latest_rate (SpecLatest) *)

\* what get_exchange_rate for today returns to the caller of the observed
\* get_latest_rate, from the same cache and the same upstream
LookupForToday ==
    IF ad.adapter = "CurrencyBeacon"
    THEN CBGetExchangeRate(ad.source, ad.target, Today, ad.before, ad.answer)
    ELSE MockGetExchangeRate(ad.source, ad.target, Today, ad.drawn)

\* C20: on either adapter get_latest_rate(source, target) ends as
\* get_exchange_rate(source, target, today) does from the same cache and
\* upstream: the same quote on success, the same kind of error on failure.
C20_LatestIsLookupForToday ==
    ad.method = "get_latest_rate" =>
        /\ ad.out.exc.kind = LookupForToday.exc.kind
        /\ ad.out.result = LookupForToday.result

----------------------------------------------------------------------------
(* Claims about get_exchange_rates_for_date (SpecLatest) *)

\* the targets the observed batch lookup asks for
RequestedTargets ==
    IF ad.targets.none THEN {EUR, USD, GBP, CHF}
    ELSE {Upper(ad.targets.list[i]) : i \in DOMAIN ad.targets.list}

\* the targets the backend has data for: the mock adapter generates a
\* rate for any pair, the upstream has those of its rates mapping
TargetsWithData ==
    IF ad.adapter = "Mock Provider" THEN RequestedTargets
    ELSE IF ad.answer.kind # "json" THEN {}
    ELSE DOMAIN (IF ad.answer.rates # <<>> THEN ad.answer.rates
                 ELSE ad.answer.nested)

\* C21: on either adapter, when the backend has data for the date, the
\* batch lookup succeeds and returns exactly one quote for each requested
\* target that differs from the source and has data, all quotes with one
\* valuation date, none with the source as its target.
C21_BatchLookupReturnsRequestedTargets ==
    (ad.method = "get_exchange_rates_for_date" /\ TargetsWithData # {}) =>
        /\ ad.out.exc = NoExc
        /\ \A t \in (RequestedTargets \cap TargetsWithData) \ {Upper(ad.source)} :
               Cardinality({i \in DOMAIN ad.out.result :
                              ad.out.result[i].exchanged_currency = t}) = 1
        /\ \A i, j \in DOMAIN ad.out.result :
               ad.out.result[i].valuation_date = ad.out.result[j].valuation_date
        /\ \A i \in DOMAIN ad.out.result :
               ad.out.result[i].exchanged_currency # Upper(ad.source)

----------------------------------------------------------------------------
(* Claims about the rates of the mock adapter (SpecAdapter) *)

\* call a is a single-date lookup on the mock adapter for a pair of
\* different currencies
MockPairLookup(a) ==
    /\ a.adapter = "Mock Provider"
    /\ a.method = "get_exchange_rate"
    /\ Upper(a.source) # Upper(a.target)

\* C22: two calls of MockAdapter.get_exchange_rate for the same pair of
\* different currencies and the same date return the same rate, for every
\* pair, those without a direct or EUR-pivot entry in the base-rate table
\* included.
C22_SamePairSameDateSameRate ==
    [][(/\ MockPairLookup(ad) /\ MockPairLookup(ad')
        /\ Upper(ad'.source) = Upper(ad.source)
        /\ Upper(ad'.target) = Upper(ad.target)
        /\ ad'.date = ad.date)
       => ad'.out.result.rate_value = ad.out.result.rate_value]_vars

\* the base rates _get_base_rate may return: those of the table and the
\* ends of uniform(0.5, 2.0)
BaseRates == {DefaultBaseRates[k] : k \in DOMAIN DefaultBaseRates} \cup DrawnBases

\* what the seeded generator's random() may return: the ends of [0, 1)
\* and its middle, in units of 10^-3
UniformDraws == {0, 499, 999}

----------------------------------------------------------------------------
(* Claims about MockAdapter.get_historical_rates (SpecHistorical) *)

\* C24: for start <= end, MockAdapter.get_historical_rates returns one
\* quote for each day of [start, end] in ascending order: (end - start) + 1
\* quotes, the i-th dated start + i - 1.
C24_MockHistoricalOnePerDay ==
    (/\ ad.adapter = "Mock Provider" /\ ad.method = "get_historical_rates"
     /\ ad.date <= ad.end_date) =>
        /\ ad.out.exc = NoExc
        /\ Len(ad.out.result) = (ad.end_date - ad.date) + 1
        /\ \A i \in DOMAIN ad.out.result :
               ad.out.result[i].valuation_date = ad.date + i - 1

\* C24 witness: the mock adapter returned the quotes of a range of several
\* days that ends after today
C24_Witness ==
    /\ ad.adapter = "Mock Provider" /\ ad.method = "get_historical_rates"
    /\ ad.date < ad.end_date
    /\ ad.end_date > Today
    /\ Len(ad.out.result) = (ad.end_date - ad.date) + 1
----------------------------------------------------------------------------
(* Claims about the remote adapter's error handling, checked under         *)
(* SpecRequest.                                                            *)

\* a call of the remote adapter that sent a request and got `how` for it
Responded(how) ==
    /\ ad.adapter = "CurrencyBeacon"
    /\ ad.method \in {"get_exchange_rate", "get_latest_rate",
                      "get_exchange_rates_for_date"}
    /\ ad.out.requests # <<>>
    /\ ad.response.how = how

\* C25: a call of CurrencyBeaconAdapter ends without an exception, with
\* ProviderUnavailableError or RateNotFoundError, or - a historical lookup
\* whose start is after its end - with ValueError; and a call whose request
\* met a timeout, a transport failure, a non-2xx status (401, 403, 429,
\* 500), a malformed body or a body with an error field ends with
\* ProviderUnavailableError.
C25_FailuresAreNormalized ==
    (ad.adapter = "CurrencyBeacon") =>
        /\ \/ ad.out.exc = NoExc
           \/ ad.out.exc.kind \in {"ProviderUnavailableError", "RateNotFoundError"}
           \/ /\ ad.method = "get_historical_rates"
              /\ ad.out.exc.kind = "ValueError"
        /\ \A r \in FailedResponses :
              (Responded(r.how) /\ ad.response = r) =>
                  ad.out.exc.kind = "ProviderUnavailableError"

\* a single-date lookup got a body that is not JSON
C25_Witness ==
    /\ Responded("malformed")
    /\ ad.method = "get_exchange_rate"
    /\ ad.out.exc.kind = "ProviderUnavailableError"

\* C26: every quote a lookup of the remote adapter returns has a rate
\* greater than 0, whatever the upstream answered.
C26_ReturnedRateIsPositive ==
    (/\ ad.adapter = "CurrencyBeacon"
     /\ ad.method \in {"get_exchange_rate", "get_latest_rate"}
     /\ ad.out.exc = NoExc) => ad.out.result.rate_value > 0

----------------------------------------------------------------------------
(* Claims about the historical lookup of the remote adapter, checked under *)
(* SpecHistorical.                                                         *)

\* the per-day loop of the observed call left at the error threshold
Tripped == \E d \in InRange : FifthFailure(d)

\* C27 as stated: the per-day loop sleeps once after every iteration,
\* the one that reaches the error threshold included, so the number of
\* sleeps of a call is the number of dates it visited.
C27_SleepAfterEveryIteration ==
    PerDayPath => ad.out.sleeps = Cardinality(Visited)

\* C27 amended: the per-day loop sleeps once after every iteration (cache
\* hit, success, RateNotFound, or a failure below the threshold) except
\* the one that reaches the error threshold, which leaves the loop at once.
C27_SleepAfterEveryIterationButTheLast ==
    PerDayPath =>
        ad.out.sleeps = Cardinality(Visited) - (IF Tripped THEN 1 ELSE 0)

\* C27 witness: a call that slept after a first answered date and after
\* four failures, and left at the fifth
C27_Witness ==
    /\ PerDayPath
    /\ Tripped
    /\ Cardinality(Visited) = MaxErrors + 1
    /\ ad.out.sleeps = MaxErrors

\* the observed call is a historical lookup of the remote adapter whose
\* start is not after its end
CBHistoricalCalled ==
    /\ ad.adapter = "CurrencyBeacon"
    /\ ad.method = "get_historical_rates"
    /\ ad.date <= ad.end_date

\* C28: get_historical_rates with start <= end returns the empty list
\* without a request and without reading or writing the cache when start
\* is after today; otherwise its first request is /timeseries from start
\* to min(end, today), and every further request is a single-date request
\* for a date of the range that is not after today.
C28_NothingAfterTodayIsRequested ==
    CBHistoricalCalled =>
        IF ad.date > Today
        THEN /\ ad.out.exc = NoExc
             /\ ad.out.result = <<>>
             /\ ad.out.requests = <<>>
             /\ ad.out.cache_gets = <<>>
             /\ ad.out.cache_sets = <<>>
             /\ ad.out.cache = ad.before
        ELSE /\ Len(ad.out.requests) >= 1
             /\ ad.out.requests[1] =
                    TsRequest(Upper(ad.source), ad.date,
                              IF ad.end_date > Today THEN Today ELSE ad.end_date,
                              Upper(ad.target))
             /\ \A i \in 2..Len(ad.out.requests) :
                    /\ ad.out.requests[i].endpoint \in {"/latest", "/historical"}
                    /\ ad.out.requests[i].end_date = 0
                    /\ ad.out.requests[i].date <= Today
                    /\ ad.out.requests[i].endpoint = "/historical" =>
                           ad.out.requests[i].date \in ad.date..ad.end_date
             /\ \A i \in DOMAIN ad.out.cache_gets :
                    ad.out.cache_gets[i][3] <= Today

\* C28 witness: a range that ends after today, asked up to today
C28_Witness ==
    /\ CBHistoricalCalled
    /\ ad.date <= Today
    /\ ad.end_date > Today
    /\ Len(ad.out.requests) >= 2
    /\ ad.out.requests[1].end_date = Today

----------------------------------------------------------------------------
(* Claims about the response shapes, checked under SpecRequest.            *)

\* the observed call is a single-date lookup that got a body with rates
\* that are numbers
AnsweredLookup ==
    /\ Responded("ok")
    /\ ad.method = "get_exchange_rate"

\* C29 as stated: the lookup returns the target's rate when the target is
\* in the top-level or in the nested mapping, and raises RateNotFoundError
\* exactly when it is in neither.
C29_EitherShape ==
    AnsweredLookup =>
        LET t == Upper(ad.target)
            found == t \in DOMAIN ad.response.rates \cup DOMAIN ad.response.nested
        IN  /\ found => ad.out.exc = NoExc
            /\ ad.out.exc.kind = "RateNotFoundError" <=> ~found

\* the mapping the lookup reads: the top-level one unless it is empty
ShapeRead == IF ad.response.rates # <<>> THEN ad.response.rates
             ELSE ad.response.nested

\* C29 amended: the lookup reads the top-level mapping when it is not
\* empty and the nested one otherwise; it returns the target's rate from
\* that mapping when the target is in it and raises RateNotFoundError, not
\* ProviderUnavailableError, exactly when it is not.
C29_FirstNonEmptyShape ==
    AnsweredLookup =>
        LET t == Upper(ad.target)
        IN  /\ t \in DOMAIN ShapeRead =>
                  /\ ad.out.exc = NoExc
                  /\ ad.out.result.rate_value = ShapeRead[t]
            /\ ad.out.exc.kind = "RateNotFoundError" <=> t \notin DOMAIN ShapeRead

\* C29 witness: the rate came from the nested mapping
C29_Witness ==
    /\ AnsweredLookup
    /\ ad.response.rates = <<>>
    /\ Upper(ad.target) \in DOMAIN ad.response.nested
    /\ ad.out.exc = NoExc
    /\ ad.out.result.rate_value = ad.response.nested[Upper(ad.target)]

----------------------------------------------------------------------------
(* Claims about the adapter objects of the ProviderManager, checked under  *)
(* SpecInstances.                                                          *)

\* two configs are the same: both None, or dicts with the same items
SameConfig(c1, c2) ==
    /\ c1.none = c2.none
    /\ {c1.items[i] : i \in DOMAIN c1.items} = {c2.items[i] : i \in DOMAIN c2.items}

\* no adapter object returned since the last clear_cache was returned
\* before it
NewAfterClear ==
    \A t \in pm.old, u \in pm.returned : t.adapter # u.adapter

\* C30 as stated: between two clear_cache calls, calls with the same
\* adapter path and the same config got the same adapter object, calls
\* with different paths or different configs got different ones, and the
\* objects returned after a clear_cache are not those returned before it.
C30_SameConfigSameInstance ==
    /\ \A t, u \in pm.returned :
          IF t.adapter_path = u.adapter_path /\ SameConfig(t.config, u.config)
          THEN t.adapter = u.adapter
          ELSE t.adapter # u.adapter
    /\ NewAfterClear

\* C30 amended: between two clear_cache calls, calls with the same adapter
\* path and configs of the same text str(config) got the same adapter
\* object (so it was constructed once), calls whose path or whose hash of
\* that text differ got different ones, and the objects returned after a
\* clear_cache are not those returned before it.
C30_SameSerializedConfigSameInstance ==
    /\ \A t, u \in pm.returned :
          /\ (t.adapter_path = u.adapter_path /\ Str(t.config) = Str(u.config))
                 => t.adapter = u.adapter
          /\ (t.adapter_path # u.adapter_path
               \/ Hash(Str(t.config)) # Hash(Str(u.config)))
                 => t.adapter # u.adapter
    /\ NewAfterClear
    /\ Cardinality({t.adapter : t \in pm.returned \cup pm.old}) = pm.made

\* C30 witness: after a clear_cache, a path and config that had an adapter
\* object before got another one, and the other path got a third
C30_Witness ==
    \E t \in pm.old, u, v \in pm.returned :
        /\ t.adapter_path = u.adapter_path
        /\ t.config = u.config
        /\ t.adapter # u.adapter
        /\ v.adapter_path # u.adapter_path
        /\ v.config = u.config

----------------------------------------------------------------------------
(* Claims about load_historical_rates_task, checked under SpecTask.        *)

\* the run has ended, by returning or by an exception out of the loop
TaskEnded == task.pc \in {"done", "raised"}

\* C31: for start <= end and batch_size >= 1, the ranges passed to
\* load_historical_rates by a run that has ended begin at start, follow
\* one another without gap or overlap, span between 1 and batch_size days
\* each, and end at end.
C31_BatchesPartitionTheRange ==
    (TaskEnded /\ task.start <= task.end /\ task.batch_size >= 1) =>
        LET r == task.ranges
        IN  /\ r # <<>>
            /\ r[1][1] = task.start
            /\ r[Len(r)][2] = task.end
            /\ \A i \in DOMAIN r :
                  /\ r[i][1] <= r[i][2]
                  /\ r[i][2] - r[i][1] + 1 <= task.batch_size
            /\ \A i \in 1..(Len(r) - 1) : r[i + 1][1] = r[i][2] + 1

\* C38: a run of the task that has started ends.
C38_TaskTerminates == (task.pc = "loop") ~> TaskEnded

----------------------------------------------------------------------------
(* Further claims about the service, checked under SpecConvert, Spec and   *)
(* SpecNamed.                                                              *)

\* C32: the valuation date in the dict convert_amount returns is the
\* valuation date of the rate record whose rate it used.
C32_ConvertReturnsTheRecordsDate ==
    \A t \in Threads :
        (/\ th[t].pc = "converted"
         /\ th[t].exc = NoExc
         /\ th[t].source # th[t].target) =>
            th[t].conv[1].valuation_date = th[t].ret[1].valuation_date

\* the historical loads whose fetch is over
LoadFetched == {t \in Threads : th[t].op = "load" /\ th[t].pc \in {"bulk", "done"}}

\* C33: in a historical load run through execute_with_failover, a provider
\* whose adapter is the CurrencyBeacon adapter is the last one invoked, and
\* for start <= end its lookup ends in a list: the load goes on to save it
\* without an error from the fetch.
C33_NoFailoverPastCurrencyBeacon ==
    \A t \in LoadFetched :
        \A i \in DOMAIN th[t].invoked :
            providers[th[t].invoked[i]].adapter_path = CBPath =>
                /\ i = Len(th[t].invoked)
                /\ th[t].date <= th[t].end_date => th[t].exc = NoExc

\* C33 witness: the upstream gave nothing for a range that starts no later
\* than today; the load got an empty list from the CurrencyBeacon provider
\* and did not go on to the active mock provider behind it
C33_Witness ==
    \E t \in LoadFetched :
        /\ th[t].pc = "bulk"
        /\ th[t].date <= th[t].end_date
        /\ th[t].date <= Today
        /\ th[t].results = <<>>
        /\ th[t].invoked = <<P1>>
        /\ providers[P1].adapter_path = CBPath
        /\ providers[P2].is_active

----------------------------------------------------------------------------
(* Claims about the remote adapter's cache keys (SpecHistorical) *)

\* C34: every quote CurrencyBeaconAdapter.get_historical_rates returns has
\* the requested source and target and a valuation date from start to
\* min(end, today), on the /timeseries path, on the per-day path and
\* whatever the cache holds.
C34_ReturnedQuotesLieInTheRange ==
    (CBHistoricalAsked /\ ad.out.exc = NoExc) =>
        \A i \in DOMAIN ad.out.result :
            /\ ad.out.result[i].source_currency = Upper(ad.source)
            /\ ad.out.result[i].exchanged_currency = Upper(ad.target)
            /\ ad.out.result[i].valuation_date \in InRange

\* C35: the entry of the process-local cache under the key of (source,
\* target, date) is a quote with that source, that target and that
\* valuation date, after any sequence of single-date and historical
\* lookups, lookups for dates after today included.
C35_CacheEntryMatchesItsKey ==
    \A k \in DOMAIN cbCache :
        /\ cbCache[k].source_currency = k[1]
        /\ cbCache[k].exchanged_currency = k[2]
        /\ cbCache[k].valuation_date = k[3]

----------------------------------------------------------------------------
(* Claims about concurrent calls of the service (Spec) *)

\* the resolve calls that returned, to their caller, the record of the key
\* they were asked for, a record the store still holds
ReturnedItsRecord ==
    {u \in Returned : /\ th[u].op = "resolve"
                      /\ th[u].ret # <<>>
                      /\ th[u].ret[1].valuation_date = th[u].date
                      /\ th[u].ret[1] \in store}

\* C36: once a record of (source, target, date) has been written and
\* returned to a caller, a concurrent resolve call for the same key that
\* finishes its write returns the same rate: resolve does not change the
\* rate of a record that exists.
C36_ResolveKeepsTheRecordedRate ==
    [][\A t \in Threads, u \in ReturnedItsRecord :
          (/\ th[t].op = "resolve" /\ th[t].pc = "write"
           /\ th'[t].pc = "done"
           /\ th[t].source = th[u].source
           /\ th[t].target = th[u].target
           /\ th[t].date = th[u].date)
          => th'[t].ret[1].rate_value = th[u].ret[1].rate_value]_vars

----------------------------------------------------------------------------
(* Claims about concurrent calls of the mock adapter (SpecMockThreads) *)

\* C37: when two threads call MockAdapter.get_exchange_rate concurrently,
\* each call returns the rate varied by the variation of its own date,
\* whatever the interleaving of the seed, draw and reseed steps.
C37_EachCallGetsItsOwnDatesVariation ==
    \A t \in Threads :
        mk[t].pc = "done" =>
            mk[t].rate = ApplyVariation(mk[t].base_rate, mk[t].date)

----------------------------------------------------------------------------
(* Claims about failing service calls (SpecResolve, SpecNamed) *)

\* the resolve calls that ended in an exception
ResolveFailed ==
    {t \in Returned : th[t].op = "resolve" /\ th[t].exc # NoExc}

\* C39: a resolve call that fails (every provider failed, no provider is
\* active, the named provider is unknown, the quote's currency is no row
\* of the Currency table) writes nothing: the only step of a resolve call
\* that changes the store is the one that ends it with a record returned.
C39_FailedResolveWritesNothing ==
    [][\A t \in Threads :
          (th'[t] # th[t] /\ th'[t].op = "resolve" /\ store' # store)
          => (th'[t].pc = "done" /\ th'[t].exc = NoExc /\ th'[t].ret # <<>>)]_vars

\* C39 witness: one call failed on the currency of the quote it had
\* fetched, the other without a quote, and the store holds no row
C39_Witness ==
    \E t, u \in ResolveFailed :
        /\ th[t].exc.kind = "DoesNotExist"
        /\ th[t].results # <<>>
        /\ th[u].results = <<>>
        /\ store = {}

\* the names of the active providers that the name given to call t matches
NamedActive(t) == {p.name : p \in ProvidersNamed(providers, th[t].provider)}

\* C40: when resolve or load_historical is given the name of an active
\* provider and goes to fetch, that provider's adapter is the only one
\* invoked, once; if it fails with ProviderUnavailableError or
\* RateNotFoundError the call ends with that error, and the fetch leaves
\* the store as it was.
C40_OnlyTheNamedProviderIsInvoked ==
    [][\A t \in Threads :
          (/\ th[t].pc = "fetch" /\ th'[t].pc # "fetch"
           /\ th[t].provider # NoName
           /\ NamedActive(t) # {})
          => /\ Len(th'[t].invoked) = 1
             /\ th'[t].invoked[1] \in NamedActive(t)
             /\ th'[t].exc # NoExc =>
                    /\ th'[t].pc = "done"
                    /\ th'[t].exc.kind \in {"ProviderUnavailableError",
                                            "RateNotFoundError"}
             /\ store' = store]_vars

\* C40 witness: a resolve call that named the CurrencyBeacon provider ended
\* with its ProviderUnavailableError; the active mock provider was not
\* tried
C40_Witness ==
    \E t \in ResolveFailed :
        /\ th[t].provider = P1
        /\ th[t].exc.kind = "ProviderUnavailableError"
        /\ th[t].invoked = <<P1>>
        /\ providers[P2].is_active

============================================================================
